---- MODULE Spec2Model ----
(***************************************************************************)
(* A model of the schema-conditional resolution and validation engine of    *)
(* schema-example: src/schema/conditional.ts (isValidAgainst, mergeSchemas, *)
(* resolveEffectiveSchema, pruneDataAgainstSchema) and the state of         *)
(* src/schema/DynamicForm.tsx (formData, debouncedData, errors, validate,   *)
(* handleSubmit, clearErrorFor).                                            *)
(*                                                                          *)
(* JavaScript values are tagged records, so that values of different        *)
(* JavaScript types are always comparable:                                  *)
(*   undefined, null, string, number, boolean, array, object.               *)
(* An object is the sequence of its own enumerable entries in insertion     *)
(* order (Object.keys / Object.entries order); a key whose value is         *)
(* undefined is still a key (`key in obj`).                                 *)
(*                                                                          *)
(* A schema node (SchemaField / JsonSchema) is a TLA+ record that has a     *)
(* field exactly when the JavaScript object has that field with a value     *)
(* other than undefined; `properties` is a sequence of entries              *)
(* [k |-> name, v |-> child schema] in insertion order, `required` a        *)
(* sequence of names, `enum` a sequence of values.                          *)
(***************************************************************************)
EXTENDS Integers, Sequences, FiniteSets, TLC

(* ------------------------------------------------------------------ *)
(* JavaScript values                                                    *)
(* ------------------------------------------------------------------ *)
Undef == [t |-> "undefined"]
Null == [t |-> "null"]
Str(s) == [t |-> "string", s |-> s]
Num(n) == [t |-> "number", n |-> n]
Bool(b) == [t |-> "boolean", b |-> b]
Arr(elems) == [t |-> "array", elems |-> elems]
Obj(entries) == [t |-> "object", entries |-> entries]

\* typeof v === "object" && v !== null && !Array.isArray(v)
isRecord(v) == v.t = "object"

\* Array.isArray(v)
isArray(v) == v.t = "array"

\* a === b: value equality on primitives, identity on objects and arrays
\* (two distinct object values of the model are never the same reference).
StrictEq(a, b) == a.t \notin {"object", "array"} /\ a = b

\* Object.keys of a sequence of entries
KeysOf(entries) == [i \in 1..Len(entries) |-> entries[i].k]

\* key in obj / hasOwnProperty, on a sequence of entries
HasKey(entries, key) == \E i \in 1..Len(entries) : entries[i].k = key

\* obj[key] on a sequence of entries that holds the key
Lookup(entries, key) ==
    entries[CHOOSE i \in 1..Len(entries) : entries[i].k = key].v

\* obj[key] for a JavaScript object value: undefined when the key is absent
ObjGet(obj, key) ==
    IF HasKey(obj.entries, key) THEN Lookup(obj.entries, key) ELSE Undef

\* (isRecord(value) ? value : {})[key]
GetOrUndef(value, key) == IF isRecord(value) THEN ObjGet(value, key) ELSE Undef

\* Array.from(new Set(list)): first occurrences, in order
RECURSIVE Dedupe(_)
Dedupe(list) ==
    IF list = <<>> THEN <<>>
    ELSE LET front == Dedupe(SubSeq(list, 1, Len(list) - 1))
             last == list[Len(list)]
         IN IF \E i \in 1..Len(front) : front[i] = last
            THEN front
            ELSE Append(front, last)

\* the element of a one-element set.  Only({body : x \in {e}}) is
\* `const x = e; body`: the value of e is computed once and named x in body
Only(S) == CHOOSE r \in S : TRUE

\* the elements of a sequence, as a set
Range(list) == {list[i] : i \in 1..Len(list)}

(* ------------------------------------------------------------------ *)
(* Schema nodes                                                         *)
(* ------------------------------------------------------------------ *)
\* the node has the field, with a value other than undefined
Has(node, fld) == fld \in DOMAIN node

\* node.type, "undefined" when the node declares none
TypeOf(node) == IF Has(node, "type") THEN node.type ELSE "undefined"

\* node.required ?? []
RequiredOrEmpty(node) == IF Has(node, "required") THEN node.required ELSE <<>>

\* node.properties ?? {}
PropsOrEmpty(node) == IF Has(node, "properties") THEN node.properties ELSE <<>>

\* the node without the named fields
Without(node, flds) == [f \in DOMAIN node \ flds |-> node[f]]

(* ------------------------------------------------------------------ *)
(* conditional.ts: isValidAgainst                                       *)
(* ------------------------------------------------------------------ *)
RECURSIVE isValidAgainst(_, _)

\* isValidAgainst taking the empty string of a required key as present
isValidAgainstEmptyPresent(schema, data) ==
    LET t == TypeOf(schema) IN
    IF t = "object" THEN
        IF ~isRecord(data) THEN FALSE
        ELSE
            /\ Has(schema, "required") =>
                  \A i \in 1..Len(schema.required) :
                      LET key == schema.required[i] IN
                      /\ HasKey(data.entries, key)
                      /\ ObjGet(data, key) \notin {Undef, Null}
            /\ Has(schema, "properties") =>
                  \A i \in 1..Len(schema.properties) :
                      LET childSchema == schema.properties[i].v
                          v == ObjGet(data, schema.properties[i].k)
                      IN v # Undef =>
                          /\ Has(childSchema, "enum") =>
                                \E j \in 1..Len(childSchema.enum) :
                                    StrictEq(childSchema.enum[j], v)
                          /\ Has(childSchema, "const") =>
                                StrictEq(v, childSchema.const)
                          /\ (TypeOf(childSchema) = "object"
                                /\ v.t \in {"object", "array"}) =>
                                isValidAgainst(childSchema, v)
    ELSE IF t = "array" THEN
        IF ~isArray(data) THEN FALSE
        ELSE IF Has(schema, "items") /\ Len(data.elems) > 0
        THEN \A i \in 1..Len(data.elems) :
                 isValidAgainst(schema.items, data.elems[i])
        ELSE TRUE
    ELSE IF t = "string" THEN data.t = "string"
    ELSE IF t = "number" THEN data.t = "number"
    ELSE IF t = "integer" THEN data.t = "number"
    ELSE IF t = "boolean" THEN data.t = "boolean"
    ELSE TRUE

isValidAgainst(schema, data) ==
    LET t == TypeOf(schema) IN
    IF t = "object" THEN
        IF ~isRecord(data) THEN FALSE
        ELSE
            /\ Has(schema, "required") =>
                  \A i \in 1..Len(schema.required) :
                      LET key == schema.required[i] IN
                      /\ HasKey(data.entries, key)
                      /\ ObjGet(data, key) \notin {Undef, Null, Str("")}
            /\ Has(schema, "properties") =>
                  \A i \in 1..Len(schema.properties) :
                      LET childSchema == schema.properties[i].v
                          v == ObjGet(data, schema.properties[i].k)
                      IN v # Undef =>
                          /\ Has(childSchema, "enum") =>
                                \E j \in 1..Len(childSchema.enum) :
                                    StrictEq(childSchema.enum[j], v)
                          /\ Has(childSchema, "const") =>
                                StrictEq(v, childSchema.const)
                          /\ (TypeOf(childSchema) = "object"
                                /\ v.t \in {"object", "array"}) =>
                                isValidAgainst(childSchema, v)
    ELSE IF t = "array" THEN
        IF ~isArray(data) THEN FALSE
        ELSE IF Has(schema, "items") /\ Len(data.elems) > 0
        THEN \A i \in 1..Len(data.elems) :
                 isValidAgainst(schema.items, data.elems[i])
        ELSE TRUE
    ELSE IF t = "string" THEN data.t = "string"
    ELSE IF t = "number" THEN data.t = "number"
    ELSE IF t = "integer" THEN data.t = "number"
    ELSE IF t = "boolean" THEN data.t = "boolean"
    ELSE TRUE

(* ------------------------------------------------------------------ *)
(* conditional.ts: mergeSchemas                                         *)
(* ------------------------------------------------------------------ *)
RECURSIVE mergeSchemas(_, _)

\* mergeRequired leaving required as the spread set it (overlay wins)
mergeRequiredOverlayWins(base, overlay, out) == out

\* lines 81-84: required is the de-duplicated concatenation
mergeRequired(base, overlay, out) ==
    IF Has(base, "required") \/ Has(overlay, "required")
    THEN ("required" :> Dedupe(RequiredOrEmpty(base) \o RequiredOrEmpty(overlay)))
             @@ out
    ELSE out

\* lines 86-98: properties are merged key by key when a side has type object
mergeProperties(base, overlay, out) ==
    IF TypeOf(base) = "object" \/ TypeOf(overlay) = "object"
    THEN LET baseProps == PropsOrEmpty(base)
             overProps == PropsOrEmpty(overlay)
             allKeys == Dedupe(KeysOf(baseProps) \o KeysOf(overProps))
             merged ==
                 [i \in 1..Len(allKeys) |->
                     LET k == allKeys[i] IN
                     [k |-> k,
                      v |-> IF HasKey(baseProps, k) /\ HasKey(overProps, k)
                            THEN Only({mergeSchemas(b, o) :
                                          b \in {Lookup(baseProps, k)},
                                          o \in {Lookup(overProps, k)}})
                            ELSE IF HasKey(overProps, k)
                            THEN Lookup(overProps, k)
                            ELSE Lookup(baseProps, k)]]
         IN ("type" :> "object") @@ ("properties" :> merged) @@ out
    ELSE out

\* lines 100-104: items are merged when a side has type array and items
mergeItems(base, overlay, out) ==
    IF /\ (TypeOf(base) = "array" \/ TypeOf(overlay) = "array")
       /\ (Has(base, "items") \/ Has(overlay, "items"))
    THEN ("type" :> "array")
         @@ ("items" :>
                Only({mergeSchemas(b, o) :
                         b \in {IF Has(base, "items") THEN base.items
                                ELSE overlay.items},
                         o \in {IF Has(overlay, "items") THEN overlay.items
                                ELSE base.items}}))
         @@ out
    ELSE out

\* mergeSchemas with the spread the other way round: { ...overlay, ...base }
mergeSchemasBaseWins(base, overlay) ==
    LET spread == base @@ overlay
    IN mergeItems(base, overlay,
           mergeProperties(base, overlay,
               mergeRequired(base, overlay, spread)))

mergeSchemas(base, overlay) ==
    LET spread == overlay @@ base   \* { ...base, ...overlay }
    IN mergeItems(base, overlay,
           mergeProperties(base, overlay,
               mergeRequired(base, overlay, spread)))

(* ------------------------------------------------------------------ *)
(* conditional.ts: resolveEffectiveSchema                               *)
(* ------------------------------------------------------------------ *)
\* lines 122-128 and 167-175: the branch the matcher selects is merged onto
\* the node; the node is unchanged when it has no if, or no then and no else,
\* or lacks the selected side.
\* applyBranch with the two branches exchanged
applyBranchSwapped(field, value) ==
    IF Has(field, "if") /\ (Has(field, "then") \/ Has(field, "else"))
    THEN Only({IF matches
               THEN IF Has(field, "else") THEN mergeSchemas(field, field["else"])
                    ELSE field
               ELSE IF Has(field, "then") THEN mergeSchemas(field, field["then"])
                    ELSE field :
                  matches \in {isValidAgainst(field["if"], value)}})
    ELSE field

applyBranch(field, value) ==
    IF Has(field, "if") /\ (Has(field, "then") \/ Has(field, "else"))
    THEN Only({IF matches
               THEN IF Has(field, "then") THEN mergeSchemas(field, field["then"])
                    ELSE field
               ELSE IF Has(field, "else") THEN mergeSchemas(field, field["else"])
                    ELSE field :
                  matches \in {isValidAgainst(field["if"], value)}})
    ELSE field

RECURSIVE visit(_, _)

\* lines 131-138: the children of an object node are visited with their values
visitProperties(working, value) ==
    IF TypeOf(working) = "object" /\ Has(working, "properties")
    THEN [working EXCEPT !.properties =
             [i \in 1..Len(working.properties) |->
                 [k |-> working.properties[i].k,
                  v |-> visit(working.properties[i].v,
                              GetOrUndef(value, working.properties[i].k))]]]
    ELSE working

\* visitItems resolving the items against the last element
visitItemsLast(working, value) ==
    IF TypeOf(working) = "array" /\ Has(working, "items")
    THEN [working EXCEPT !.items =
             visit(working.items,
                   IF isArray(value) /\ Len(value.elems) > 0
                   THEN value.elems[Len(value.elems)] ELSE Undef)]
    ELSE working

\* lines 140-144: the items of an array node are visited with the first element
visitItems(working, value) ==
    IF TypeOf(working) = "array" /\ Has(working, "items")
    THEN [working EXCEPT !.items =
             visit(working.items,
                   IF isArray(value) /\ Len(value.elems) > 0
                   THEN value.elems[1] ELSE Undef)]
    ELSE working

visit(field, value) ==
    Only({Only({visitItems(working2, value) :
                   working2 \in {visitProperties(working1, value)}}) :
             working1 \in {applyBranch(field, value)}})

\* lines 156-165: the root as a SchemaField; a field whose value is undefined
\* is an absent field of the record
rootAsField(schema) ==
    [f \in DOMAIN schema \cap
           {"title", "description", "properties", "required", "if", "then", "else"}
        |-> schema[f]]
    @@ ("type" :> "object")

\* lines 183-189: the root that is returned
rootOutput(workingRoot, schema) ==
    LET pick(f) == IF Has(workingRoot, f) THEN workingRoot[f] ELSE schema[f]
        flds == {f \in {"title", "description"} :
                    Has(workingRoot, f) \/ Has(schema, f)}
    IN [f \in flds |-> pick(f)]
       @@ [f \in {"required"} \cap DOMAIN workingRoot |-> workingRoot[f]]
       @@ ("type" :> "object")
       @@ ("properties" :> PropsOrEmpty(workingRoot))

\* visitRoot handing the whole data, not obj[k], to the visit of a property
visitRootWholeData(merged, data) ==
    ("properties" :>
        [i \in 1..Len(PropsOrEmpty(merged)) |->
            [k |-> PropsOrEmpty(merged)[i].k,
             v |-> visit(PropsOrEmpty(merged)[i].v, data)]])
    @@ merged

\* lines 177-181: the properties of the merged root are visited
visitRoot(merged, data) ==
    ("properties" :>
        [i \in 1..Len(PropsOrEmpty(merged)) |->
            [k |-> PropsOrEmpty(merged)[i].k,
             v |-> visit(PropsOrEmpty(merged)[i].v,
                         GetOrUndef(data, PropsOrEmpty(merged)[i].k))]])
    @@ merged

resolveEffectiveSchema(node, data) ==
    IF TypeOf(node) = "object" /\ Has(node, "properties")
    THEN Only({Only({rootOutput(workingRoot, node) :
                        workingRoot \in {visitRoot(merged, data)}}) :
                  merged \in {applyBranch(rootAsField(node), data)}})
    ELSE node

(* ------------------------------------------------------------------ *)
(* conditional.ts: pruneDataAgainstSchema                               *)
(* ------------------------------------------------------------------ *)
RECURSIVE pruneDataAgainstSchema(_, _)

\* pruneDataAgainstSchema returning the data as it is
pruneNothing(schema, data) == data

\* pruneDataAgainstSchema handing the whole data, not src[key], to the child
pruneWholeData(schema, data) ==
    IF TypeOf(schema) = "object" /\ Has(schema, "properties")
    THEN Obj([i \in 1..Len(schema.properties) |->
                 [k |-> schema.properties[i].k,
                  v |-> pruneDataAgainstSchema(schema.properties[i].v, data)]])
    ELSE IF TypeOf(schema) = "array" /\ Has(schema, "items")
    THEN Arr(IF isArray(data)
             THEN [i \in 1..Len(data.elems) |->
                      pruneDataAgainstSchema(schema.items, data.elems[i])]
             ELSE <<>>)
    ELSE data

pruneDataAgainstSchema(schema, data) ==
    IF TypeOf(schema) = "object" /\ Has(schema, "properties")
    THEN Obj([i \in 1..Len(schema.properties) |->
                 [k |-> schema.properties[i].k,
                  v |-> pruneDataAgainstSchema(
                            schema.properties[i].v,
                            GetOrUndef(data, schema.properties[i].k))]])
    ELSE IF TypeOf(schema) = "array" /\ Has(schema, "items")
    THEN Arr(IF isArray(data)
             THEN [i \in 1..Len(data.elems) |->
                      pruneDataAgainstSchema(schema.items, data.elems[i])]
             ELSE <<>>)
    ELSE data

(* ------------------------------------------------------------------ *)
(* normalize.ts: normalizeSchema                                        *)
(* ------------------------------------------------------------------ *)
\* lines 13-20: enum derived from the consts of oneOf when enum is absent.
\* Every oneOf entry of the model carries const (OneOfConstOption).
deriveEnum(field) ==
    IF ~Has(field, "enum") /\ Has(field, "oneOf") /\ Len(field.oneOf) > 0
    THEN ("enum" :> [i \in 1..Len(field.oneOf) |-> field.oneOf[i].const]) @@ field
    ELSE field

RECURSIVE normalizeVisit(_)
normalizeVisit(field) ==
    LET out1 == deriveEnum(field)
        out2 == IF TypeOf(out1) = "object" /\ Has(out1, "properties")
                THEN [out1 EXCEPT !.properties =
                         [i \in 1..Len(out1.properties) |->
                             [k |-> out1.properties[i].k,
                              v |-> normalizeVisit(out1.properties[i].v)]]]
                ELSE out1
        out3 == IF TypeOf(out2) = "array" /\ Has(out2, "items")
                THEN [out2 EXCEPT !.items = normalizeVisit(out2.items)]
                ELSE out2
    IN out3

normalizeSchema(node) ==
    IF TypeOf(node) = "object" /\ Has(node, "properties")
    THEN [node EXCEPT !.properties =
             [i \in 1..Len(node.properties) |->
                 [k |-> node.properties[i].k,
                  v |-> normalizeVisit(node.properties[i].v)]]]
    ELSE node

(* ------------------------------------------------------------------ *)
(* DynamicForm.tsx: paths, validate                                     *)
(* ------------------------------------------------------------------ *)
\* A path segment is a property name or an array index.
Key(name) == [key |-> name]
Idx(n) == [idx |-> n]
isIndex(seg) == "idx" \in DOMAIN seg

\* String(p) for a number, p itself for a string
segText(seg) == IF isIndex(seg) THEN ToString(seg.idx) ELSE seg.key

\* path.map(...).join(".")
RECURSIVE joinPath(_)
joinPath(path) ==
    IF path = <<>> THEN ""
    ELSE IF Len(path) = 1 THEN segText(path[1])
    ELSE joinPath(SubSeq(path, 1, Len(path) - 1)) \o "." \o segText(path[Len(path)])

RequiredMessage == "This field is required"
InvalidMessage == "Invalid value"

\* acc[p] = msg
SetError(acc, p, msg) == (p :> msg) @@ acc

RECURSIVE validate(_, _, _, _)
RECURSIVE validateRequired(_, _, _, _, _)
RECURSIVE validateProps(_, _, _, _, _)
RECURSIVE validateItems(_, _, _, _, _)

\* validateRequired taking only the empty string as missing
validateRequiredEmptyOnly(schemaNode, dataNode, basePath, acc, i) ==
    IF i > Len(schemaNode.required) THEN acc
    ELSE LET k == schemaNode.required[i]
             acc1 == IF ObjGet(dataNode, k) = Str("")
                     THEN SetError(acc, joinPath(Append(basePath, Key(k))),
                                   RequiredMessage)
                     ELSE acc
         IN validateRequired(schemaNode, dataNode, basePath, acc1, i + 1)

\* validateRequired without the check of an empty required array
validateRequiredNoArrayCheck(schemaNode, dataNode, basePath, acc, i) ==
    IF i > Len(schemaNode.required) THEN acc
    ELSE LET k == schemaNode.required[i]
             acc1 == IF ObjGet(dataNode, k) \in {Undef, Str(""), Null}
                     THEN SetError(acc, joinPath(Append(basePath, Key(k))),
                                   RequiredMessage)
                     ELSE acc
         IN validateRequired(schemaNode, dataNode, basePath, acc1, i + 1)

\* lines 288-297: required.forEach, from the i-th name on
validateRequired(schemaNode, dataNode, basePath, acc, i) ==
    IF i > Len(schemaNode.required) THEN acc
    ELSE LET k == schemaNode.required[i]
             v == ObjGet(dataNode, k)
             props == PropsOrEmpty(schemaNode)
             isMissing == v \in {Undef, Str(""), Null}
             isEmptyArrayRequired ==
                 /\ isArray(v)
                 /\ Has(schemaNode, "properties")
                 /\ HasKey(props, k)
                 /\ TypeOf(Lookup(props, k)) = "array"
                 /\ Len(v.elems) = 0
             acc1 == IF isMissing \/ isEmptyArrayRequired
                     THEN SetError(acc, joinPath(Append(basePath, Key(k))),
                                   RequiredMessage)
                     ELSE acc
         IN validateRequired(schemaNode, dataNode, basePath, acc1, i + 1)

\* lines 299-303: Object.entries(props).forEach, from the i-th entry on
validateProps(props, dataNode, basePath, acc, i) ==
    IF i > Len(props) THEN acc
    ELSE validateProps(props, dataNode, basePath,
             validate(props[i].v, ObjGet(dataNode, props[i].k),
                      Append(basePath, Key(props[i].k)), acc),
             i + 1)

\* lines 307-309: arr.forEach, from the i-th element on (idx = i - 1)
validateItems(items, elems, basePath, acc, i) ==
    IF i > Len(elems) THEN acc
    ELSE validateItems(items, elems, basePath,
             validate(items, elems[i], Append(basePath, Idx(i - 1)), acc),
             i + 1)

\* validate reading a value that is no mapping as the empty mapping
validateNonMappingAsEmpty(schemaNode, dataNode, basePath, acc) ==
    LET nodeType == IF Has(schemaNode, "type") THEN schemaNode.type ELSE "object"
        record == IF isRecord(dataNode) THEN dataNode ELSE Obj(<<>>)
    IN IF nodeType = "object"
       THEN LET acc1 == IF Has(schemaNode, "required")
                        THEN validateRequired(schemaNode, record, basePath, acc, 1)
                        ELSE acc
            IN IF Has(schemaNode, "properties")
               THEN validateProps(schemaNode.properties, record, basePath, acc1, 1)
               ELSE acc1
       ELSE IF nodeType = "array" /\ Has(schemaNode, "items")
       THEN validateItems(schemaNode.items,
                          IF isArray(dataNode) THEN dataNode.elems ELSE <<>>,
                          basePath, acc, 1)
       ELSE IF /\ Has(schemaNode, "enum")
               /\ dataNode # Undef
               /\ dataNode # Str("")
               /\ ~\E j \in 1..Len(schemaNode.enum) :
                      StrictEq(schemaNode.enum[j], dataNode)
       THEN SetError(acc, joinPath(basePath), InvalidMessage)
       ELSE acc

\* validate checking the enum of the empty string too
validateEnumOfEmpty(schemaNode, dataNode, basePath, acc) ==
    LET nodeType == IF Has(schemaNode, "type") THEN schemaNode.type ELSE "object"
    IN IF nodeType = "object"
       THEN LET acc1 == IF Has(schemaNode, "required") /\ isRecord(dataNode)
                        THEN validateRequired(schemaNode, dataNode, basePath, acc, 1)
                        ELSE acc
            IN IF Has(schemaNode, "properties") /\ isRecord(dataNode)
               THEN validateProps(schemaNode.properties, dataNode, basePath, acc1, 1)
               ELSE acc1
       ELSE IF nodeType = "array" /\ Has(schemaNode, "items")
       THEN validateItems(schemaNode.items,
                          IF isArray(dataNode) THEN dataNode.elems ELSE <<>>,
                          basePath, acc, 1)
       ELSE IF /\ Has(schemaNode, "enum")
               /\ dataNode # Undef
               /\ ~\E j \in 1..Len(schemaNode.enum) :
                      StrictEq(schemaNode.enum[j], dataNode)
       THEN SetError(acc, joinPath(basePath), InvalidMessage)
       ELSE acc

validate(schemaNode, dataNode, basePath, acc) ==
    LET nodeType == IF Has(schemaNode, "type") THEN schemaNode.type ELSE "object"
    IN IF nodeType = "object"
       THEN LET acc1 == IF Has(schemaNode, "required") /\ isRecord(dataNode)
                        THEN validateRequired(schemaNode, dataNode, basePath, acc, 1)
                        ELSE acc
            IN IF Has(schemaNode, "properties") /\ isRecord(dataNode)
               THEN validateProps(schemaNode.properties, dataNode, basePath, acc1, 1)
               ELSE acc1
       ELSE IF nodeType = "array" /\ Has(schemaNode, "items")
       THEN validateItems(schemaNode.items,
                          IF isArray(dataNode) THEN dataNode.elems ELSE <<>>,
                          basePath, acc, 1)
       ELSE IF /\ Has(schemaNode, "enum")
               /\ dataNode # Undef
               /\ dataNode # Str("")
               /\ ~\E j \in 1..Len(schemaNode.enum) :
                      StrictEq(schemaNode.enum[j], dataNode)
       THEN SetError(acc, joinPath(basePath), InvalidMessage)
       ELSE acc

\* the empty error map {}
NoErrors == [p \in {} |-> ""]

(* ------------------------------------------------------------------ *)
(* DynamicForm.tsx: setValueAtPath, clearErrorFor                       *)
(* ------------------------------------------------------------------ *)
\* base[head] = next on the entries of an object: replaced in place, or appended
PutEntry(entries, key, val) ==
    IF HasKey(entries, key)
    THEN [i \in 1..Len(entries) |->
             IF entries[i].k = key THEN [k |-> key, v |-> val] ELSE entries[i]]
    ELSE Append(entries, [k |-> key, v |-> val])

\* base[head] = next on the elements of an array; the slots the assignment
\* skips are holes, which read as undefined
PutElem(elems, n, val) ==
    [i \in 1..(IF n + 1 > Len(elems) THEN n + 1 ELSE Len(elems)) |->
        IF i = n + 1 THEN val
        ELSE IF i <= Len(elems) THEN elems[i] ELSE Undef]

RECURSIVE setValueAtPath(_, _, _)
setValueAtPath(obj, path, value) ==
    IF path = <<>> THEN value
    ELSE LET head == path[1]
             rest == Tail(path)
         IN IF isIndex(head)
            THEN LET base == IF isArray(obj) THEN obj.elems ELSE <<>>
                     cur == IF head.idx < Len(base) THEN base[head.idx + 1] ELSE Undef
                 IN Arr(PutElem(base, head.idx, setValueAtPath(cur, rest, value)))
            ELSE LET base == IF isRecord(obj) THEN obj.entries ELSE <<>>
                     cur == IF HasKey(base, head.key) THEN Lookup(base, head.key)
                            ELSE Undef
                 IN Obj(PutEntry(base, head.key, setValueAtPath(cur, rest, value)))

\* base.splice(head, 1) on the elements of an array
SpliceOut(elems, n) ==
    IF n >= 0 /\ n < Len(elems)
    THEN [i \in 1..(Len(elems) - 1) |-> IF i <= n THEN elems[i] ELSE elems[i + 1]]
    ELSE elems

\* delete base[head] on the entries of an object
DeleteEntry(entries, key) ==
    LET Other(e) == e.k # key IN SelectSeq(entries, Other)

\* lines 176-198
RECURSIVE removeValueAtPath(_, _)
removeValueAtPath(obj, path) ==
    IF path = <<>> THEN obj
    ELSE LET head == path[1]
             rest == Tail(path)
         IN IF isIndex(head)
            THEN LET base == IF isArray(obj) THEN obj.elems ELSE <<>>
                     cur == IF head.idx < Len(base) THEN base[head.idx + 1] ELSE Undef
                 IN IF rest = <<>>
                    THEN Arr(SpliceOut(base, head.idx))
                    ELSE Arr(PutElem(base, head.idx, removeValueAtPath(cur, rest)))
            ELSE LET base == IF isRecord(obj) THEN obj.entries ELSE <<>>
                     cur == IF HasKey(base, head.key) THEN Lookup(base, head.key)
                            ELSE Undef
                 IN IF rest = <<>>
                    THEN Obj(DeleteEntry(base, head.key))
                    ELSE Obj(PutEntry(base, head.key, removeValueAtPath(cur, rest)))

\* lines 255-273: the value of a new array item
defaultForSchema(field) ==
    IF Has(field, "enum") /\ Len(field.enum) > 0 THEN field.enum[1]
    ELSE IF TypeOf(field) = "boolean" THEN Bool(FALSE)
    ELSE IF TypeOf(field) = "object" THEN Obj(<<>>)
    ELSE IF TypeOf(field) = "array" THEN Arr(<<>>)
    ELSE Str("")

\* the largest array index and the paths below an array element that a key
\* of the error map can name
MaxIndex == 3
ElementSuffixes == {<<>>} \cup {<<Key(n)>> : n \in {"name", "c"}}

\* lines 475-481: the key split at the prefix arrayPathStr + ".": the pairs
\* (first segment read as a number, rest of the key) when the key starts
\* with the prefix and its first segment is a number, none otherwise
indexAndSuffix(k, arrayPath) ==
    {js \in (0..MaxIndex) \X ElementSuffixes :
        k = joinPath(arrayPath \o <<Idx(js[1])>> \o js[2])}

\* pruneErrorsOnArrayRemoval keeping the keys of the later elements as they are
pruneErrorsNoShift(prev, arrayPath, removedIdx) ==
    IF DOMAIN prev = {} THEN prev
    ELSE LET dropped == {k \in DOMAIN prev :
                            \E js \in indexAndSuffix(k, arrayPath) : js[1] = removedIdx}
         IN [k \in DOMAIN prev \ dropped |-> prev[k]]

\* lines 466-504: the error map after the removal of an array element:
\* the entries of the removed element are dropped, those of the later
\* elements move down by one index, the others are kept
pruneErrorsOnArrayRemoval(prev, arrayPath, removedIdx) ==
    IF DOMAIN prev = {} THEN prev
    ELSE LET newKey(k) ==
                 LET parts == indexAndSuffix(k, arrayPath)
                 IN IF parts = {} THEN k
                    ELSE LET js == Only(parts)
                         IN IF js[1] > removedIdx
                            THEN joinPath(arrayPath \o <<Idx(js[1] - 1)>> \o js[2])
                            ELSE k
             dropped == {k \in DOMAIN prev :
                            \E js \in indexAndSuffix(k, arrayPath) : js[1] = removedIdx}
             kept == DOMAIN prev \ dropped
         IN [q \in {newKey(k) : k \in kept} |->
                prev[CHOOSE k \in kept : newKey(k) = q]]

\* clearErrorFor emptying the error map
clearAllErrors(prev, path) == NoErrors

\* clearErrorFor removing nothing
clearNoError(prev, path) == prev

\* lines 209-221: the entry at the joined path is removed when there is one
clearErrorFor(prev, path) ==
    LET p == joinPath(path)
    IN IF p \in DOMAIN prev THEN [q \in DOMAIN prev \ {p} |-> prev[q]] ELSE prev

(* ------------------------------------------------------------------ *)
(* SchemaPlayground.tsx: the example schemas                            *)
(* ------------------------------------------------------------------ *)
Entry(name, val) == [k |-> name, v |-> val]

SHIPPING ==
    [type |-> "object",
     title |-> "Shipping",
     properties |-> <<
         Entry("method", [type |-> "string", title |-> "Method",
                          enum |-> <<Str("pickup"), Str("delivery")>>,
                          order |-> 1]),
         Entry("pickupCode", [type |-> "string", title |-> "Pickup Code"]) >>,
     if |-> [type |-> "object",
             properties |-> <<
                 Entry("method", [type |-> "string", const |-> Str("delivery")]) >>],
     then |-> [type |-> "object",
               required |-> <<"address">>,
               properties |-> <<
                   Entry("address", [type |-> "string",
                                     title |-> "Delivery Address",
                                     order |-> 2]) >>],
     else |-> [type |-> "object", required |-> <<"pickupCode">>]]

VEHICLE ==
    [type |-> "object",
     title |-> "Vehicle",
     properties |-> <<
         Entry("type", [type |-> "string", title |-> "Vehicle Type",
                        oneOf |-> << [const |-> Str("car"), title |-> "Car"],
                                     [const |-> Str("bike"), title |-> "Bike"] >>,
                        order |-> 1]),
         Entry("details", [type |-> "object", title |-> "Details", order |-> 2,
                           properties |-> <<>>]) >>,
     if |-> [type |-> "object",
             properties |-> <<
                 Entry("type", [type |-> "string", const |-> Str("car")]) >>],
     then |-> [type |-> "object",
               properties |-> <<
                   Entry("details",
                       [type |-> "object",
                        title |-> "Car Details",
                        properties |-> <<
                            Entry("doors", [type |-> "integer", title |-> "Doors",
                                            order |-> 1]),
                            Entry("fuel", [type |-> "string",
                                           oneOf |-> <<
                                               [const |-> Str("gas"), title |-> "Gasoline"],
                                               [const |-> Str("ev"), title |-> "Electric"] >>,
                                           order |-> 2]) >>,
                        required |-> <<"doors">>]) >>],
     else |-> [type |-> "object",
               properties |-> <<
                   Entry("details",
                       [type |-> "object",
                        title |-> "Bike Details",
                        properties |-> <<
                            Entry("gears", [type |-> "integer", title |-> "Gears",
                                            order |-> 1]) >>]) >>]]

\* The Vehicle example of the end-to-end scenario: the branch-only field
\* details.fuel declares its values by enum, and type by enum too.
VEHICLE_ENUM ==
    LET fuel == [type |-> "string", enum |-> <<Str("gas"), Str("ev")>>, order |-> 2]
        carDetails == VEHICLE["then"].properties[1].v
        carDetailsEnum ==
            [carDetails EXCEPT !.properties =
                << carDetails.properties[1], Entry("fuel", fuel) >>]
    IN [normalizeSchema(VEHICLE) EXCEPT
            !["then"] = [type |-> "object",
                         properties |-> << Entry("details", carDetailsEnum) >>]]

(* ------------------------------------------------------------------ *)
(* Bounded inputs of the resolve / prune / validate pipeline            *)
(* ------------------------------------------------------------------ *)
\* longest data array that is drawn
MaxArrayLen == 2

TextNode == [type |-> "string"]
EnumNode == [type |-> "string", enum |-> <<Str("u"), Str("v")>>]
BareObjectNode == [type |-> "object"]
ObjectNode == [type |-> "object", required |-> <<"c">>,
               properties |-> << Entry("c", TextNode) >>]
UntypedNode == [properties |-> << Entry("c", TextNode) >>]
ListNode == [type |-> "array", items |-> TextNode]
BareListNode == [type |-> "array"]
ObjectListNode == [type |-> "array",
                   items |-> [type |-> "object",
                              properties |-> << Entry("c", TextNode) >>]]
\* if c is "u" then d is declared and required, else e is declared
CondNode ==
    [type |-> "object",
     properties |-> << Entry("c", EnumNode) >>,
     if |-> [type |-> "object",
             properties |-> << Entry("c", [type |-> "string", const |-> Str("u")]) >>],
     then |-> [type |-> "object", required |-> <<"d">>,
               properties |-> << Entry("d", TextNode) >>],
     else |-> [type |-> "object",
               properties |-> << Entry("e", TextNode) >>]]
ThenOnlyNode == [f \in DOMAIN CondNode \ {"else"} |-> CondNode[f]]
CondListNode == [type |-> "array", items |-> CondNode]
\* an object whose property c is the conditional node
DeepCondNode == [type |-> "object", properties |-> << Entry("c", CondNode) >>]

ChildNodes ==
    {TextNode, EnumNode, BareObjectNode, ObjectNode, UntypedNode, ListNode,
     BareListNode, ObjectListNode, CondNode, ThenOnlyNode, CondListNode,
     DeepCondNode}

\* a root that declares one property a
PlainRoot(child) == [type |-> "object", properties |-> << Entry("a", child) >>]

\* a root whose then branch declares b, and whose else branch requires a
BranchRoot(child) ==
    [type |-> "object",
     properties |-> << Entry("a", EnumNode) >>,
     if |-> [type |-> "object",
             properties |-> << Entry("a", [type |-> "string", const |-> Str("u")]) >>],
     then |-> [type |-> "object", required |-> <<"b">>,
               properties |-> << Entry("b", child) >>],
     else |-> [type |-> "object", required |-> <<"a">>]]

\* a root whose then branch is itself conditional: when z is given it
\* requires b, otherwise it declares e
NestedBranchRoot ==
    [type |-> "object",
     properties |-> << Entry("a", EnumNode) >>,
     if |-> [type |-> "object",
             properties |-> << Entry("a", [type |-> "string", const |-> Str("u")]) >>],
     then |-> [type |-> "object",
               properties |-> << Entry("b", TextNode) >>,
               if |-> [type |-> "object", required |-> <<"z">>],
               then |-> [type |-> "object", required |-> <<"b">>],
               else |-> [type |-> "object",
                         properties |-> << Entry("e", TextNode) >>]],
     else |-> [type |-> "object", required |-> <<"a">>]]

\* a node without type that requires its property c, the conditional node
UntypedParentNode ==
    [required |-> <<"c">>, properties |-> << Entry("c", CondNode) >>]

\* BranchRoot(TextNode) with an if that omits type
UntypedIfRoot ==
    [BranchRoot(TextNode) EXCEPT !["if"] =
        [properties |-> << Entry("a", [type |-> "string", const |-> Str("u")]) >>]]

\* the root of type object that declares no properties field: BranchRoot
\* without its properties
NoPropertiesRoot ==
    [f \in DOMAIN BranchRoot(TextNode) \ {"properties"} |-> BranchRoot(TextNode)[f]]

\* a root whose if tests a key, x, that only its else branch declares
RequiresOwnElseKeyRoot(child) ==
    [type |-> "object",
     properties |-> << Entry("a", TextNode) >>,
     if |-> [type |-> "object", required |-> <<"x">>],
     else |-> [type |-> "object", properties |-> << Entry("x", child) >>]]

\* a root that declares one property a and requires it
RequiredRoot(child) ==
    [type |-> "object", required |-> <<"a">>, properties |-> << Entry("a", child) >>]

SyntheticRoots ==
    {PlainRoot(n) : n \in ChildNodes}
        \cup {RequiredRoot(n) : n \in {TextNode, EnumNode, ObjectNode, ListNode}}
        \cup {BranchRoot(n) : n \in {TextNode, BareObjectNode, CondNode, ObjectListNode,
                                     CondListNode}}
        \cup {NestedBranchRoot, PlainRoot(UntypedParentNode), UntypedIfRoot,
              NoPropertiesRoot}

\* every sequence over S of length at most n
RECURSIVE SeqsUpTo(_, _)
SeqsUpTo(S, n) ==
    IF n = 0 THEN {<<>>}
    ELSE LET shorter == SeqsUpTo(S, n - 1)
         IN shorter \cup {Append(q, x) : q \in {r \in shorter : Len(r) = n - 1}, x \in S}

\* the entries of an object with the given keys, in order, choosing each
\* value from vals[key]; the marker Absent leaves the key out
Absent == [t |-> "absent"]
RECURSIVE ObjectsOver(_, _)
ObjectsOver(keys, vals) ==
    IF keys = <<>> THEN {<<>>}
    ELSE {IF x = Absent THEN rest ELSE <<Entry(keys[1], x)>> \o rest :
              x \in vals[keys[1]], rest \in ObjectsOver(Tail(keys), vals)}

ElemVals ==
    {Str("u"),
     Obj(<< Entry("c", Str("u")), Entry("z", Str("s")) >>),
     Obj(<< Entry("c", Str("v")) >>)}

NodeVals ==
    {Str("u"), Str("v"), Str(""), Num(1), Null,
     Obj(<<>>),
     Obj(<< Entry("c", Str("u")) >>),
     Obj(<< Entry("c", Str("v")), Entry("d", Str("x")) >>),
     Obj(<< Entry("c", Str("u")), Entry("z", Str("s")) >>),
     Obj(<< Entry("e", Str("x")), Entry("c", Str("u")), Entry("d", Str("x")) >>),
     Obj(<< Entry("c", Obj(<< Entry("c", Str("u")) >>)) >>),
     Obj(<< Entry("c", Obj(<< Entry("c", Str("v")), Entry("d", Str("x")) >>)) >>)}
        \cup {Arr(q) : q \in SeqsUpTo(ElemVals, MaxArrayLen)}

SyntheticData ==
    {Obj(e) : e \in ObjectsOver(<<"a", "b", "z">>,
                  [a |-> NodeVals \cup {Absent},
                   b |-> {Absent, Obj(<< Entry("c", Str("u")), Entry("d", Str("x")) >>),
                          Obj(<< Entry("c", Str("v")) >>),
                          Arr(<< Obj(<< Entry("c", Str("u")) >>) >>)},
                   z |-> {Absent, Str("s")}])}
        \cup {Undef, Null, Arr(<<>>)}

ShippingData ==
    {Obj(e) : e \in ObjectsOver(<<"method", "address", "pickupCode">>,
                  [method |-> {Absent, Str("pickup"), Str("delivery"), Str("drone")},
                   address |-> {Absent, Str(""), Str("123 Main St")},
                   pickupCode |-> {Absent, Str("A1")}])}

VehicleDetails ==
    {Absent,
     Obj(<<>>),
     Obj(<< Entry("doors", Num(4)), Entry("fuel", Str("gas")) >>),
     Obj(<< Entry("fuel", Str("diesel")) >>),
     Obj(<< Entry("gears", Num(3)) >>),
     Obj(<< Entry("doors", Num(4)), Entry("fuel", Str("ev")), Entry("gears", Num(3)) >>)}

VehicleData ==
    {Obj(e) : e \in ObjectsOver(<<"type", "details">>,
                  [type |-> {Absent, Str("car"), Str("bike")},
                   details |-> VehicleDetails])}

\* the (schema, data) pairs the pipeline is run on
PipelineInputs ==
    ({SHIPPING} \X ShippingData)
        \cup ({VEHICLE_ENUM, normalizeSchema(VEHICLE)} \X VehicleData)
        \cup (SyntheticRoots \X SyntheticData)

(* ------------------------------------------------------------------ *)
(* Bounded inputs of isValidAgainst                                     *)
(* ------------------------------------------------------------------ *)
\* object schemas as an `if` holds them: required names, enum and const
\* children, a nested object child
MatchSchemas ==
    {[type |-> "object"],
     [type |-> "object", required |-> <<"x">>],
     [type |-> "object", required |-> <<"x", "y">>,
      properties |-> << Entry("x", EnumNode) >>],
     [type |-> "object",
      properties |-> << Entry("x", [type |-> "string", const |-> Str("u")]) >>],
     [type |-> "object",
      properties |-> << Entry("x", [const |-> Num(0)]), Entry("y", EnumNode) >>],
     [type |-> "object",
      properties |-> << Entry("x", [type |-> "object", required |-> <<"c">>]) >>],
     [type |-> "object",
      properties |-> << Entry("x", [type |-> "object",
                                    properties |-> << Entry("c", EnumNode) >>]),
                        Entry("y", [type |-> "string"]) >>]}

MatchVals ==
    {Absent, Undef, Null, Str(""), Str("u"), Str("w"), Num(0), Bool(FALSE),
     Obj(<<>>), Obj(<< Entry("c", Str("u")) >>), Obj(<< Entry("c", Str("w")) >>),
     Obj(<< Entry("c", Str("")) >>), Obj(<< Entry("c", Undef) >>),
     Arr(<<>>)}

MatchData ==
    {Obj(e) : e \in ObjectsOver(<<"x", "y">>,
                  [x |-> MatchVals, y |-> {Absent, Undef, Str("v"), Str("")}])}
        \cup {Undef, Null, Str("u"), Arr(<< Obj(<<>>) >>)}

\* the (schema, data) pairs the matcher is run on
MatchInputs == MatchSchemas \X MatchData

(* ------------------------------------------------------------------ *)
(* Bounded inputs of mergeSchemas                                       *)
(* ------------------------------------------------------------------ *)
MergeNodes ==
    ChildNodes
        \cup {[type |-> "object", title |-> "T", required |-> <<"c", "b">>,
               properties |-> << Entry("b", EnumNode), Entry("c", ObjectNode) >>],
              [type |-> "object", required |-> <<"b", "b">>,
               properties |-> << Entry("b", TextNode) >>],
              [required |-> <<"d", "b">>],
              [properties |-> << Entry("b", TextNode) >>],
              [type |-> "string", title |-> "S", required |-> <<>>],
              [type |-> "string", title |-> "S2", description |-> "D", order |-> 2,
               enum |-> <<Str("v")>>],
              [type |-> "number", description |-> "B", order |-> 1],
              [type |-> "array", items |-> ObjectNode, required |-> <<"c">>]}

(* ------------------------------------------------------------------ *)
(* DynamicForm.tsx: what the form compares and renders                  *)
(* ------------------------------------------------------------------ *)
\* JSON.stringify(v), as the value the text denotes: an object entry whose
\* value is undefined is left out, an undefined array element is null.  Two
\* values have the same text exactly when they have the same such value.
RECURSIVE JSONstringify(_)
JSONstringify(v) ==
    IF isRecord(v)
    THEN LET Defined(e) == e.v # Undef
             kept == SelectSeq(v.entries, Defined)
         IN Obj([i \in 1..Len(kept) |->
                    [k |-> kept[i].k, v |-> JSONstringify(kept[i].v)]])
    ELSE IF isArray(v)
    THEN Arr([i \in 1..Len(v.elems) |->
                 IF v.elems[i] = Undef THEN Null ELSE JSONstringify(v.elems[i])])
    ELSE v

\* lines 136-155: getValueAtPath
RECURSIVE getValueAtPath(_, _)
getValueAtPath(obj, path) ==
    IF path = <<>> THEN obj
    ELSE IF obj \in {Undef, Null} THEN Undef
    ELSE IF isIndex(path[1])
    THEN IF isArray(obj)
         THEN getValueAtPath(IF path[1].idx < Len(obj.elems)
                             THEN obj.elems[path[1].idx + 1] ELSE Undef,
                             Tail(path))
         ELSE Undef
    ELSE IF isRecord(obj)
         THEN getValueAtPath(ObjGet(obj, path[1].key), Tail(path))
         ELSE Undef

\* lines 346-663: the input controls renderField draws for a field at a path:
\* a Select for a field with enum, the controls of the children for an
\* object, the add button, the remove buttons and the controls of every
\* element for an array with items, a Checkbox for a boolean, a
\* DebouncedTextField otherwise.
RECURSIVE renderField(_, _, _)
renderField(field, path, formValue) ==
    IF Has(field, "enum")
    THEN {[kind |-> "select", path |-> path, field |-> field]}
    ELSE IF TypeOf(field) = "object"
    THEN UNION {renderField(PropsOrEmpty(field)[i].v,
                            Append(path, Key(PropsOrEmpty(field)[i].k)),
                            formValue) :
                    i \in 1..Len(PropsOrEmpty(field))}
    ELSE IF TypeOf(field) = "array" /\ Has(field, "items")
    THEN LET cur == getValueAtPath(formValue, path)
             n == IF isArray(cur) THEN Len(cur.elems) ELSE 0
         IN {[kind |-> "array", path |-> path, field |-> field, length |-> n]}
            \cup
            UNION {IF TypeOf(field.items) = "object"
                   THEN UNION {renderField(PropsOrEmpty(field.items)[i].v,
                                           path \o <<Idx(idx),
                                               Key(PropsOrEmpty(field.items)[i].k)>>,
                                           formValue) :
                                   i \in 1..Len(PropsOrEmpty(field.items))}
                   ELSE renderField(field.items, Append(path, Idx(idx)), formValue) :
                       idx \in 0..(n - 1)}
    ELSE IF TypeOf(field) = "boolean"
    THEN {[kind |-> "checkbox", path |-> path, field |-> field]}
    ELSE {[kind |-> IF TypeOf(field) \in {"integer", "number"}
                    THEN "number" ELSE "text",
           path |-> path, field |-> field]}

\* lines 677-684: the controls of the whole form
renderForm(effectiveRoot, formValue) ==
    UNION {renderField(effectiveRoot.properties[i].v,
                       <<Key(effectiveRoot.properties[i].k)>>, formValue) :
               i \in 1..Len(effectiveRoot.properties)}

\* lines 361-362, 632-633: the value a DebouncedTextField shows
inputValue(formValue, path) ==
    LET cur == getValueAtPath(formValue, path)
    IN IF cur.t \in {"number", "string"} THEN cur ELSE Str("")

\* what the user can type into a text field, and into a number field
TextInputs == {Str(""), Str("A1")}
NumberInputs == {Str(""), Num(4)}

\* the most changes of formData explored between two firings of the timer
MaxPendingEdits == 2

\* a schema typed into the playground's schema editor: a required list of
\* projects, each with a required name, and a checkbox
PROJECTS ==
    [type |-> "object",
     title |-> "Projects",
     required |-> <<"projects">>,
     properties |->
         << Entry("projects",
                  [type |-> "array",
                   items |-> [type |-> "object", required |-> <<"name">>,
                              properties |-> << Entry("name", TextNode) >>]]),
            Entry("active", [type |-> "boolean"]) >>]

\* the most elements the user adds to an array of the form
MaxItems == 2

\* the (schema, initialData) pairs a form is mounted with and left alone
SettleInputs ==
    {input \in PipelineInputs : isRecord(input[2]) /\ Has(input[1], "properties")}
        \cup ({RequiresOwnElseKeyRoot(n) : n \in {ObjectNode, BareObjectNode, ListNode, TextNode}}
                 \X {Obj(<<>>), Obj(<< Entry("a", Str("u")) >>),
                     Obj(<< Entry("x", Str("u")) >>),
                     Obj(<< Entry("a", Str("u")), Entry("x", Obj(<<>>)) >>)})

\* the schemas a form is opened on
FormSchemas == {SHIPPING, VEHICLE, PROJECTS}

(* ------------------------------------------------------------------ *)
(* erd/buildGraph.ts                                                    *)
(* ------------------------------------------------------------------ *)
\* Number.NaN
NaN == [t |-> "number", nan |-> TRUE]

\* const itemPathToken = '[]'
itemPathToken == "[]"

\* (schemaNode as SchemaField).type ?? 'object'
TypeOrObject(node) == IF Has(node, "type") THEN node.type ELSE "object"

\* lines 10-30
RECURSIVE hasAnyValue(_, _)
hasAnyValue(schemaNode, dataNode) ==
    LET t == TypeOrObject(schemaNode) IN
    CASE t = "string" -> dataNode.t = "string" /\ dataNode.s # ""
      [] t \in {"number", "integer"} ->
            dataNode.t = "number" /\ "nan" \notin DOMAIN dataNode
      [] t = "boolean" -> dataNode.t = "boolean"
      [] t = "array" -> isArray(dataNode) /\ Len(dataNode.elems) > 0
      [] t = "object" ->
            IF ~isRecord(dataNode) THEN FALSE
            ELSE IF ~Has(schemaNode, "properties")
            THEN Len(dataNode.entries) > 0
            ELSE \E i \in 1..Len(schemaNode.properties) :
                    hasAnyValue(schemaNode.properties[i].v,
                                ObjGet(dataNode, schemaNode.properties[i].k))
      [] OTHER -> FALSE

\* requiredList.includes(key)
requiredIncludes(schemaNode, key) ==
    \E i \in 1..Len(RequiredOrEmpty(schemaNode)) : schemaNode.required[i] = key

\* child.type === 'array' && child.items && child.items.type === 'object'
isArrayOfObjects(child) ==
    TypeOf(child) = "array" /\ Has(child, "items") /\ TypeOf(child.items) = "object"

\* lines 56-60: the attribute of a property that is no entity of its own;
\* enumValues is a field of the record when it is defined
attributeOf(schemaNode, key, child) ==
    IF TypeOf(child) = "array"
    THEN (IF Has(child, "items") /\ Has(child.items, "enum")
          THEN [enumValues |-> child.items.enum] ELSE <<>>)
         @@ [name |-> key,
             type |-> IF Has(child, "items") /\ Has(child.items, "type")
                      THEN child.items.type ELSE "array",
             isArray |-> TRUE,
             required |-> requiredIncludes(schemaNode, key)]
    ELSE (IF Has(child, "enum") THEN [enumValues |-> child.enum] ELSE <<>>)
         @@ [name |-> key,
             type |-> TypeOf(child),
             required |-> requiredIncludes(schemaNode, key)]

\* lines 51-61: the attributes of the first n properties
RECURSIVE attributesOf(_, _, _)
attributesOf(schemaNode, props, n) ==
    IF n = 0 THEN <<>>
    ELSE LET child == props[n].v
             before == attributesOf(schemaNode, props, n - 1)
         IN IF TypeOf(child) = "object" \/ isArrayOfObjects(child)
            THEN before
            ELSE Append(before, attributeOf(schemaNode, props[n].k, child))

\* lines 40-73
makeEntity(title, schemaNode, path, dataNode) ==
    LET props == IF TypeOrObject(schemaNode) = "object"
                 THEN PropsOrEmpty(schemaNode) ELSE <<>>
    IN [kind |-> "entity",
        id |-> joinPath(path),
        title |-> title,
        path |-> joinPath(path),
        attributes |-> attributesOf(schemaNode, props, Len(props)),
        requiredCount |-> Len(RequiredOrEmpty(schemaNode)),
        exists |-> hasAnyValue(schemaNode, dataNode)]

\* node.title || fallback
TitleOr(node, fallback) ==
    IF Has(node, "title") /\ node.title # "" THEN node.title ELSE fallback

\* lines 94 and 104: the edge from the entity at `path` to a child entity
edgeTo(path, childPath, key, card, dataPath) ==
    [id |-> joinPath(path) \o "->" \o joinPath(childPath),
     source |-> joinPath(path),
     target |-> joinPath(childPath),
     data |-> [from |-> joinPath(path), to |-> joinPath(childPath),
               label |-> key \o " (" \o card \o ")",
               cardinality |-> card,
               path |-> joinPath(dataPath)]]

\* lines 75-111: the nodes and edges that walkObject pushes, in order
RECURSIVE walkObject(_, _, _, _)
RECURSIVE walkProperties(_, _, _, _)
walkObject(title, schemaNode, path, dataNode) ==
    Only({[nodes |-> <<[id |-> entity.id, data |-> entity]>> \o below.nodes,
           edges |-> below.edges] :
             entity \in {makeEntity(title, schemaNode, path, dataNode)},
             below \in {walkProperties(schemaNode, path,
                                       IF isRecord(dataNode) THEN dataNode
                                       ELSE Obj(<<>>),
                                       Len(PropsOrEmpty(schemaNode)))}})

\* lines 86-110: the loop over the first n properties
walkProperties(schemaNode, path, record, n) ==
    IF n = 0 THEN [nodes |-> <<>>, edges |-> <<>>]
    ELSE
    Only({
        LET key == schemaNode.properties[n].k
            child == schemaNode.properties[n].v
            childTitle == TitleOr(child, key)
            isReq == requiredIncludes(schemaNode, key)
        IN
        IF TypeOf(child) = "object"
        THEN Only({[nodes |-> before.nodes \o sub.nodes,
                    edges |-> before.edges \o sub.edges \o
                              <<edgeTo(path, Append(path, Key(key)), key,
                                       IF isReq THEN "1..1" ELSE "0..1",
                                       Append(path, Key(key)))>>] :
                      sub \in {walkObject(childTitle, child, Append(path, Key(key)),
                                          ObjGet(record, key))}})
        ELSE IF isArrayOfObjects(child)
        THEN Only({[nodes |-> before.nodes \o sub.nodes,
                    edges |-> before.edges \o sub.edges \o
                              <<edgeTo(path, path \o <<Key(key), Key(itemPathToken)>>,
                                       key,
                                       IF isReq THEN "1..*" ELSE "0..*",
                                       Append(path, Key(key)))>>] :
                      sub \in {walkObject(TitleOr(child.items, childTitle),
                                          child.items,
                                          path \o <<Key(key), Key(itemPathToken)>>,
                                          IF isArray(ObjGet(record, key))
                                          THEN ObjGet(record, key) ELSE Undef)}})
        ELSE before :
        before \in {walkProperties(schemaNode, path, record, n - 1)}})

\* lines 36-116
buildGraph(graphSchema, graphData) ==
    walkObject(TitleOr(graphSchema, "Root"), graphSchema, <<>>, graphData)

\* the schema of an inventory: scalar attributes, a nested object, an array
\* of objects whose items nest an object, and an object without properties
INVENTORY ==
    [type |-> "object",
     required |-> <<"name", "items">>,
     properties |->
         << Entry("name", TextNode),
            Entry("count", [type |-> "number"]),
            Entry("labels", ListNode),
            Entry("owner", [type |-> "object", title |-> "Owner",
                            properties |-> << Entry("email", TextNode) >>]),
            Entry("items",
                  [type |-> "array",
                   items |-> [type |-> "object", title |-> "Item",
                              required |-> <<"sku">>,
                              properties |->
                                  << Entry("sku", TextNode),
                                     Entry("dims", [type |-> "object",
                                                    properties |->
                                                        << Entry("w", [type |-> "integer"]) >>]) >>]]),
            Entry("extra", BareObjectNode) >>]

\* the values of one property of the inventory that the graph is built on
InventoryValues(key) ==
    CASE key = "name" -> {Undef, Str(""), Str("n")}
      [] key = "count" -> {Undef, NaN, Num(0)}
      [] key = "owner" -> {Undef, Obj(<< Entry("email", Str("")) >>),
                           Obj(<< Entry("email", Str("e")) >>)}
      [] key = "items" ->
            {Undef, Arr(<<>>),
             Arr(<< Obj(<< Entry("sku", Str("")) >>) >>),
             Arr(<< Obj(<< Entry("sku", Str("s")) >>) >>),
             Arr(<< Obj(<<>>),
                    Obj(<< Entry("dims", Obj(<< Entry("w", Num(2)) >>)) >>) >>)}
      [] key = "extra" -> {Undef, Obj(<<>>), Obj(<< Entry("k", Null) >>)}

\* the entries of a data object: a property whose value is undefined is absent
RECURSIVE DefinedEntries(_)
DefinedEntries(entries) ==
    IF entries = <<>> THEN <<>>
    ELSE (IF entries[1].v = Undef THEN <<>> ELSE <<entries[1]>>)
            \o DefinedEntries(Tail(entries))

InventoryData ==
    {Obj(DefinedEntries(<< Entry("name", n), Entry("count", c), Entry("owner", o),
                           Entry("items", i), Entry("extra", x) >>)) :
        n \in InventoryValues("name"), c \in InventoryValues("count"),
        o \in InventoryValues("owner"), i \in InventoryValues("items"),
        x \in InventoryValues("extra")}

\* the (schema, data) pairs the graph is built on
GraphInputs ==
    ({INVENTORY} \X InventoryData)
        \cup ({PROJECTS} \X {Obj(<<>>),
                              Obj(<< Entry("projects", Arr(<< Obj(<< Entry("name", Str("n")) >>) >>)) >>),
                              Obj(<< Entry("active", Bool(FALSE)) >>)})

(* ------------------------------------------------------------------ *)
(* artifacts/sampleArtifacts.ts and artifacts/ArtifactsProvider.tsx     *)
(* ------------------------------------------------------------------ *)
\* A tag is the sequence of its characters; " " is white space.
draft == <<"d", "r", "a", "f", "t">>
shared == <<"s", "h", "a", "r", "e", "d">>
public == <<"p", "u", "b", "l", "i", "c">>
brand == <<"b", "r", "a", "n", "d">>

\* sampleArtifacts.ts lines 3-30
sampleArtifacts ==
    [id |-> "root", name |-> "Artifacts", type |-> "folder", tags |-> <<>>,
     children |->
        << [id |-> "fld-1", name |-> "documents", type |-> "folder",
            tags |-> <<shared>>,
            children |->
               << [id |-> "file-1", name |-> "spec.md", type |-> "file",
                   tags |-> <<draft>>],
                  [id |-> "file-2", name |-> "readme.txt", type |-> "file",
                   tags |-> <<public>>] >>],
           [id |-> "fld-2", name |-> "images", type |-> "folder",
            tags |-> <<>>,
            children |->
               << [id |-> "file-3", name |-> "logo.png", type |-> "file",
                   tags |-> <<brand>>],
                  [id |-> "file-4", name |-> "diagram.svg", type |-> "file",
                   tags |-> <<>>] >>] >>]

\* node.tags || []
TagsOrEmpty(node) == IF Has(node, "tags") THEN node.tags ELSE <<>>

\* lines 7-16
RECURSIVE cloneTree(_)
cloneTree(node) ==
    IF node.type = "folder"
    THEN [children |-> [i \in 1..Len(node.children) |-> cloneTree(node.children[i])],
          tags |-> TagsOrEmpty(node)] @@ node
    ELSE [tags |-> TagsOrEmpty(node)] @@ node

\* lines 18-23: the nodes in the order in which the Map receives them
RECURSIVE collectAll(_)
RECURSIVE collectChildren(_, _)
collectAll(node) ==
    <<node>> \o (IF node.type = "folder"
                 THEN collectChildren(node.children, Len(node.children))
                 ELSE <<>>)

collectChildren(children, n) ==
    IF n = 0 THEN <<>>
    ELSE collectChildren(children, n - 1) \o collectAll(children[n])

\* map.get(id) is defined
MapHas(nodes, id) == \E i \in 1..Len(nodes) : nodes[i].id = id

\* map.get(id)
MapGet(nodes, id) == nodes[CHOOSE i \in 1..Len(nodes) : nodes[i].id = id]

\* node.tags = tags, on the node of the tree that has the id
RECURSIVE assignTags(_, _, _)
assignTags(node, id, tags) ==
    IF node.id = id THEN [node EXCEPT !.tags = tags]
    ELSE IF node.type = "folder"
    THEN [node EXCEPT !.children =
             [i \in 1..Len(node.children) |-> assignTags(node.children[i], id, tags)]]
    ELSE node

\* the item of local storage under LS_KEY: absent, or the text of a tag map.
\* The text is held as the entries it lists, in their order; JSON.parse of
\* the text gives a record of these entries.
NoItem == [t |-> "null"]
JsonText(entries) == [t |-> "json", entries |-> entries]

\* lines 30-37
loadTagMap(item) == IF item = NoItem THEN <<>> ELSE item.entries

\* lines 39-45: the item that is stored
saveTagMap(tags) == JsonText(tags)

\* lines 53-56: the loop over the first n entries of the tag map
RECURSIVE applyTagMap(_, _, _)
applyTagMap(tree, tagMap, n) ==
    IF n = 0 THEN tree
    ELSE Only({IF MapHas(collectAll(before), tagMap[n].k)
               THEN assignTags(before, tagMap[n].k,
                               Dedupe(TagsOrEmpty(MapGet(collectAll(before), tagMap[n].k))
                                         \o tagMap[n].v))
               ELSE before :
                  before \in {applyTagMap(tree, tagMap, n - 1)}})

\* lines 48-59: the initial state of root
initialRoot(item) ==
    Only({applyTagMap(cloneTree(sampleArtifacts), tagMap, Len(tagMap)) :
             tagMap \in {loadTagMap(item)}})

\* lines 98-101: the entries of tagsPersist from the first n nodes of the map
RECURSIVE tagsPersist(_, _)
tagsPersist(nodes, n) ==
    IF n = 0 THEN <<>>
    ELSE tagsPersist(nodes, n - 1) \o
            (IF Len(TagsOrEmpty(nodes[n])) > 0
             THEN <<Entry(nodes[n].id, nodes[n].tags)>> ELSE <<>>)

\* tag.trim()
RECURSIVE trimStart(_)
trimStart(tag) ==
    IF tag # <<>> /\ Head(tag) = " " THEN trimStart(Tail(tag)) ELSE tag

RECURSIVE trimEnd(_)
trimEnd(tag) ==
    IF tag # <<>> /\ tag[Len(tag)] = " "
    THEN trimEnd(SubSeq(tag, 1, Len(tag) - 1)) ELSE tag

trim(tag) == trimEnd(trimStart(tag))

\* tags.filter((x) => x !== tag)
RECURSIVE filterOut(_, _)
filterOut(tags, tag) ==
    IF tags = <<>> THEN <<>>
    ELSE (IF Head(tags) # tag THEN <<Head(tags)>> ELSE <<>>)
            \o filterOut(Tail(tags), tag)

\* the artifact ids that addTag and removeTag are called with
ArtifactIds == {"file-1", "fld-2", "file-9"}

\* the tags that are typed
TagInputs == {<<"x">>, <<" ", "x", " ">>, <<" ">>, <<>>, draft}

(* ------------------------------------------------------------------ *)
(* State                                                                *)
(* ------------------------------------------------------------------ *)
VARIABLES
    \* the pipeline: resolveEffectiveSchema, pruneDataAgainstSchema, validate
    schema,       \* the declared root schema
    data0,        \* the data before the user's change
    data,         \* the current data
    effective,    \* resolveEffectiveSchema(schema, data)
    pruned,       \* pruneDataAgainstSchema(effective, data)
    repruned,     \* pruneDataAgainstSchema(effective, pruned)
    errs,         \* validate(effective, data)
    matched,      \* isValidAgainst(schema, data)
    pc,           \* the step of the pipeline
    \* mergeSchemas
    base, overlay, merged, mpc,
    \* DynamicForm
    formSchema,     \* the schema prop
    formData,       \* useState formData
    debouncedData,  \* useState debouncedData
    errors,         \* useState errors
    timer,          \* the 200 ms debounce timer of formData is pending
    edits,          \* the changes of formData since debouncedData was set
    event,          \* the handler that ran last, and what it did
    \* App
    view,           \* useState view
    appFormData,    \* useState formData of App, set by onDataChange
    \* buildGraph
    graph,          \* the nodes and edges that buildGraph returns
    \* ArtifactsProvider
    root,           \* useState root
    storage         \* the item of local storage under LS_KEY

pipeVars == <<schema, data0, data, effective, pruned, repruned, errs, matched, pc>>
mergeVars == <<base, overlay, merged, mpc>>
formVars == <<formSchema, formData, debouncedData, errors, timer, edits, event>>
appVars == <<view, appFormData>>
erdVars == <<graph>>
artifactVars == <<root, storage>>
vars == <<pipeVars, mergeVars, formVars, appVars, erdVars, artifactVars>>

\* a result that has not been computed
NotYet == [t |-> "pending"]

PipeIdle ==
    /\ schema = NotYet /\ data0 = NotYet /\ data = NotYet /\ effective = NotYet
    /\ pruned = NotYet /\ repruned = NotYet /\ errs = NoErrors
    /\ matched = NotYet /\ pc = "idle"

MergeIdle == base = NotYet /\ overlay = NotYet /\ merged = NotYet /\ mpc = "idle"

FormIdle ==
    /\ formSchema = NotYet /\ formData = NotYet /\ debouncedData = NotYet
    /\ errors = NoErrors /\ timer = FALSE /\ edits = 0
    /\ event = [kind |-> "idle"]

AppIdle == view = "idle" /\ appFormData = NotYet

ErdIdle == graph = NotYet

ArtifactsIdle == root = NotYet /\ storage = NotYet

(* ------------------------------------------------------------------ *)
(* The pipeline on one (schema, data) pair                              *)
(* ------------------------------------------------------------------ *)
PipeInit ==
    /\ \E input \in PipelineInputs :
          /\ schema = input[1]
          /\ data0 = input[2]
          /\ data = input[2]
    /\ effective = NotYet /\ pruned = NotYet /\ repruned = NotYet
    /\ errs = NoErrors
    /\ matched = NotYet
    /\ pc = "start"
    /\ MergeIdle
    /\ FormIdle
    /\ AppIdle
    /\ ErdIdle
    /\ ArtifactsIdle

\* handleSelectChange on a top-level property that declares enum: the
\* selected option is written at the property's path (setPathValue)
ChangeSelect ==
    /\ pc = "start"
    /\ isRecord(data)
    /\ \E i \in 1..Len(PropsOrEmpty(schema)) :
          LET field == schema.properties[i].v IN
          /\ Has(field, "enum")
          /\ \E j \in 1..Len(field.enum) :
                data' = setValueAtPath(data, <<Key(schema.properties[i].k)>>,
                                       field.enum[j])
    /\ pc' = "changed"
    /\ UNCHANGED <<schema, data0, effective, pruned, repruned, errs, matched>>
    /\ UNCHANGED <<mergeVars, formVars, appVars, erdVars, artifactVars>>

Resolve ==
    /\ pc \in {"start", "changed"}
    /\ effective' = resolveEffectiveSchema(schema, data)
    /\ pc' = "resolved"
    /\ UNCHANGED <<schema, data0, data, pruned, repruned, errs, matched>>
    /\ UNCHANGED <<mergeVars, formVars, appVars, erdVars, artifactVars>>

Prune ==
    /\ pc = "resolved"
    /\ pruned' = pruneDataAgainstSchema(effective, data)
    /\ pc' = "pruned"
    /\ UNCHANGED <<schema, data0, data, effective, repruned, errs, matched>>
    /\ UNCHANGED <<mergeVars, formVars, appVars, erdVars, artifactVars>>

Reprune ==
    /\ pc = "pruned"
    /\ repruned' = pruneDataAgainstSchema(effective, pruned)
    /\ pc' = "repruned"
    /\ UNCHANGED <<schema, data0, data, effective, pruned, errs, matched>>
    /\ UNCHANGED <<mergeVars, formVars, appVars, erdVars, artifactVars>>

Validate ==
    /\ pc = "resolved"
    /\ errs' = validate(effective, data, <<>>, NoErrors)
    /\ pc' = "validated"
    /\ UNCHANGED <<schema, data0, data, effective, pruned, repruned, matched>>
    /\ UNCHANGED <<mergeVars, formVars, appVars, erdVars, artifactVars>>

PipeNext == ChangeSelect \/ Resolve \/ Prune \/ Reprune \/ Validate

SpecPipeline == PipeInit /\ [][PipeNext]_vars

(* ------------------------------------------------------------------ *)
(* isValidAgainst on one (schema, data) pair                            *)
(* ------------------------------------------------------------------ *)
MatchInit ==
    /\ \E input \in MatchInputs :
          /\ schema = input[1]
          /\ data0 = input[2]
          /\ data = input[2]
    /\ effective = NotYet /\ pruned = NotYet /\ repruned = NotYet
    /\ errs = NoErrors
    /\ matched = NotYet
    /\ pc = "start"
    /\ MergeIdle
    /\ FormIdle
    /\ AppIdle
    /\ ErdIdle
    /\ ArtifactsIdle

Match ==
    /\ pc = "start"
    /\ matched' = isValidAgainst(schema, data)
    /\ pc' = "matched"
    /\ UNCHANGED <<schema, data0, data, effective, pruned, repruned, errs>>
    /\ UNCHANGED <<mergeVars, formVars, appVars, erdVars, artifactVars>>

MatchNext == Match

SpecMatch == MatchInit /\ [][MatchNext]_vars

(* ------------------------------------------------------------------ *)
(* mergeSchemas on one (base, overlay) pair                             *)
(* ------------------------------------------------------------------ *)
MergeInit ==
    /\ base \in MergeNodes
    /\ overlay \in MergeNodes
    /\ merged = NotYet
    /\ mpc = "start"
    /\ PipeIdle
    /\ FormIdle
    /\ AppIdle
    /\ ErdIdle
    /\ ArtifactsIdle

Merge ==
    /\ mpc = "start"
    /\ merged' = mergeSchemas(base, overlay)
    /\ mpc' = "merged"
    /\ UNCHANGED <<base, overlay>>
    /\ UNCHANGED <<pipeVars, formVars, appVars, erdVars, artifactVars>>

MergeNext == Merge

SpecMerge == MergeInit /\ [][MergeNext]_vars

(* ------------------------------------------------------------------ *)
(* DynamicForm                                                          *)
(* ------------------------------------------------------------------ *)
\* A value bound by \E x \in {e} is computed once, where it is bound.

\* lines 104-107
normalizedSchema == normalizeSchema(formSchema)

\* lines 116-119: the memo, for a value of debouncedData
effectiveSchemaFor(debounced) ==
    Only({resolveEffectiveSchema(normalized, debounced) :
             normalized \in {normalizedSchema}})

effectiveSchema == effectiveSchemaFor(debouncedData)

\* lines 121-129: the prune effect, run with an effective schema on the
\* current form data: the data it leaves
pruneEffect(effectiveRoot, current) ==
    Only({IF JSONstringify(p) # JSONstringify(current) THEN p ELSE current :
             p \in {pruneDataAgainstSchema(effectiveRoot, current)}})

\* The form after its first render and effects: formData is {} (no
\* initialData), the prune effect has run once, the debounce timer is set.
FormInit ==
    /\ formSchema \in FormSchemas
    /\ \E eff \in {effectiveSchemaFor(Obj(<<>>))} :
          formData = pruneEffect(eff, Obj(<<>>))
    /\ debouncedData = Obj(<<>>)
    /\ errors = NoErrors
    /\ timer = TRUE
    /\ edits = 0
    /\ event = [kind |-> "mount"]
    /\ view = "form"
    /\ appFormData = formData
    /\ PipeIdle
    /\ MergeIdle
    /\ ErdIdle
    /\ ArtifactsIdle

\* lines 200-207 and 209-221: setPathValue and clearErrorFor, as the Select
\* and text handlers call them; the change of formData restarts the timer
EditField(path, value) ==
    /\ edits < MaxPendingEdits
    /\ formData' = setValueAtPath(formData, path, value)
    /\ appFormData' = formData'
    /\ errors' = clearErrorFor(errors, path)
    /\ timer' = TRUE
    /\ edits' = edits + 1
    /\ event' = [kind |-> "edit", path |-> path,
                 onErrorsChange |-> (joinPath(path) \in DOMAIN errors)]
    /\ UNCHANGED <<formSchema, debouncedData, view>>
    /\ UNCHANGED <<pipeVars, mergeVars, erdVars, artifactVars>>

\* lines 223-230: handleSelectChange, with an option of the rendered Select
SelectChange ==
    /\ view = "form"
    /\ \E eff \in {effectiveSchema} :
        \E c \in renderForm(eff, formData) :
            /\ c.kind = "select"
            /\ \E j \in 1..Len(c.field.enum) : EditField(c.path, c.field.enum[j])

\* lines 58-65 and 247-253: a DebouncedTextField commits a text that differs
\* from the value it shows (handleCommit)
TextCommit ==
    /\ view = "form"
    /\ \E eff \in {effectiveSchema} :
        \E c \in renderForm(eff, formData) :
            /\ c.kind \in {"text", "number"}
            /\ \E next \in IF c.kind = "number" THEN NumberInputs ELSE TextInputs :
                  /\ next # inputValue(formData, c.path)
                  /\ EditField(c.path, next)

\* lines 232-245: handleChange of a Checkbox writes event.target.checked
CheckboxChange ==
    /\ view = "form"
    /\ \E eff \in {effectiveSchema} :
        \E c \in renderForm(eff, formData) :
            /\ c.kind = "checkbox"
            /\ EditField(c.path,
                         Bool(getValueAtPath(formData, c.path) # Bool(TRUE)))

\* lines 450-460: addItem appends the default of the items schema to the
\* array at the path and clears the error of the path
AddItem ==
    /\ view = "form"
    /\ \E eff \in {effectiveSchema} :
        \E c \in renderForm(eff, formData) :
            /\ c.kind = "array"
            /\ c.length < MaxItems
            /\ \E cur \in {getValueAtPath(formData, c.path)} :
                  EditField(c.path,
                            Arr(Append(IF isArray(cur) THEN cur.elems ELSE <<>>,
                                       defaultForSchema(c.field.items))))

\* lines 505-511: removeItem removes the element from the data and
\* reindexes the error map
RemoveItem ==
    /\ view = "form"
    /\ \E eff \in {effectiveSchema} :
        \E c \in renderForm(eff, formData) :
            /\ c.kind = "array"
            /\ edits < MaxPendingEdits
            /\ \E idx \in 0..(c.length - 1) :
                  /\ formData' = removeValueAtPath(formData, Append(c.path, Idx(idx)))
                  /\ errors' = pruneErrorsOnArrayRemoval(errors, c.path, idx)
                  /\ event' = [kind |-> "remove", path |-> c.path, idx |-> idx,
                               onErrorsChange |-> (DOMAIN errors # {})]
            /\ appFormData' = formData'
            /\ timer' = TRUE
            /\ edits' = edits + 1
            /\ UNCHANGED <<formSchema, debouncedData, view>>
            /\ UNCHANGED <<pipeVars, mergeVars, erdVars, artifactVars>>

\* lines 111-114, 116-129: the debounce timer fires: debouncedData becomes
\* formData, the effective schema is recomputed and the prune effect runs;
\* when it replaces formData the timer is set again
DebounceFire ==
    /\ timer
    /\ debouncedData' = formData
    /\ \E eff \in {effectiveSchemaFor(formData)} :
          formData' = pruneEffect(eff, formData)
    /\ timer' = (formData' # formData)
    /\ edits' = IF formData' # formData THEN 1 ELSE 0
    /\ appFormData' = formData'
    /\ event' = [kind |-> "timer"]
    /\ UNCHANGED <<formSchema, errors, view>>
    /\ UNCHANGED <<pipeVars, mergeVars, erdVars, artifactVars>>

\* lines 321-339: handleSubmit; onSubmit(formData) is called when validate
\* found nothing
handleSubmit ==
    /\ view = "form"
    /\ \E eff \in {effectiveSchema} :
          errors' = validate(eff, formData, <<>>, NoErrors)
    /\ event' = [kind |-> "submit", onSubmit |-> (DOMAIN errors' = {})]
    /\ UNCHANGED <<formSchema, formData, debouncedData, timer, edits>>
    /\ UNCHANGED <<pipeVars, mergeVars, appVars, erdVars, artifactVars>>

\* The form mounted with initialData and left alone: the prune effect has
\* run on the first render, the debounce timer is set.
SettleInit ==
    /\ \E input \in SettleInputs :
          /\ formSchema = input[1]
          /\ debouncedData = input[2]
          /\ \E eff \in {effectiveSchemaFor(input[2])} :
                formData = pruneEffect(eff, input[2])
    /\ errors = NoErrors
    /\ timer = TRUE
    /\ edits = 0
    /\ event = [kind |-> "mount"]
    /\ view = "form"
    /\ appFormData = formData
    /\ PipeIdle
    /\ MergeIdle
    /\ ErdIdle
    /\ ArtifactsIdle

SettleNext == DebounceFire

\* the timer, once set, fires after 200 ms
SpecSettle == SettleInit /\ [][SettleNext]_vars /\ WF_vars(DebounceFire)

Next ==
    \/ SelectChange \/ TextCommit \/ CheckboxChange \/ AddItem \/ RemoveItem
    \/ DebounceFire \/ handleSubmit

Spec == FormInit /\ [][Next]_vars

(* ------------------------------------------------------------------ *)
(* App: the form view, the JSON editor view and the ERD view            *)
(* ------------------------------------------------------------------ *)
\* the views of App that show the form data
DataViews == {"form", "json", "erd"}

\* the objects typed into the JSON editor
JsonDocs ==
    { Obj(<<>>),
      Obj(<< Entry("type", Str("bike")) >>),
      Obj(<< Entry("method", Str("pickup")), Entry("address", Str("A1")) >>) }

\* DynamicForm is rendered without initialData: its state after the first
\* render and its effects, the effect of lines 341-344 having handed the
\* form data to onDataChange, which is setFormData of App
mountDynamicForm ==
    /\ \E eff \in {effectiveSchemaFor(Obj(<<>>))} :
          formData' = pruneEffect(eff, Obj(<<>>))
    /\ debouncedData' = Obj(<<>>)
    /\ errors' = NoErrors
    /\ timer' = TRUE
    /\ edits' = 0
    /\ appFormData' = formData'

\* DynamicForm leaves the tree: its state is gone, its timer is cleared
unmountDynamicForm ==
    /\ formData' = NotYet
    /\ debouncedData' = NotYet
    /\ errors' = NoErrors
    /\ timer' = FALSE
    /\ edits' = 0
    /\ UNCHANGED appFormData

\* handleViewChange: the toggle sets the view; the view that is left is
\* unmounted, the view that is entered is mounted
handleViewChange ==
    /\ view \in DataViews
    /\ \E val \in DataViews \ {view} :
          /\ view' = val
          /\ IF val = "form" THEN mountDynamicForm
             ELSE IF view = "form" THEN unmountDynamicForm
             ELSE UNCHANGED <<formData, debouncedData, errors, timer, edits,
                              appFormData>>
          /\ event' = [kind |-> "view", from |-> view, shown |-> appFormData,
                       scroll |-> FALSE]
    /\ UNCHANGED formSchema
    /\ UNCHANGED <<pipeVars, mergeVars, erdVars, artifactVars>>

\* navigateToPathFromERD: a node of the ERD switches to the form view and
\* scrolls to its section
navigateToPathFromERD ==
    /\ view = "erd"
    /\ view' = "form"
    /\ mountDynamicForm
    /\ event' = [kind |-> "view", from |-> view, shown |-> appFormData,
                 scroll |-> TRUE]
    /\ UNCHANGED formSchema
    /\ UNCHANGED <<pipeVars, mergeVars, erdVars, artifactVars>>

\* DataJsonEditor handleChange: a text that parses to an object is handed
\* to onChange, which is setFormData of App
JsonEditorChange ==
    /\ view = "json"
    /\ \E parsed \in JsonDocs :
          /\ parsed # appFormData
          /\ appFormData' = parsed
    /\ event' = [kind |-> "json"]
    /\ UNCHANGED <<formSchema, formData, debouncedData, errors, timer, edits,
                   view>>
    /\ UNCHANGED <<pipeVars, mergeVars, erdVars, artifactVars>>

AppNext ==
    \/ SelectChange \/ TextCommit \/ CheckboxChange \/ AddItem \/ RemoveItem
    \/ DebounceFire \/ handleSubmit
    \/ handleViewChange \/ navigateToPathFromERD \/ JsonEditorChange

SpecApp == FormInit /\ [][AppNext]_vars

(* ------------------------------------------------------------------ *)
(* SchemaERD: buildGraph on one (schema, data) pair                     *)
(* ------------------------------------------------------------------ *)
GraphInit ==
    /\ \E input \in GraphInputs :
          /\ schema = input[1]
          /\ data0 = input[2]
          /\ data = input[2]
    /\ effective = NotYet /\ pruned = NotYet /\ repruned = NotYet
    /\ errs = NoErrors
    /\ matched = NotYet
    /\ pc = "start"
    /\ graph = NotYet
    /\ MergeIdle
    /\ FormIdle
    /\ AppIdle
    /\ ArtifactsIdle

\* the memo of SchemaERD: the graph of the schema and the data
BuildGraph ==
    /\ pc = "start"
    /\ graph' = buildGraph(schema, data)
    /\ pc' = "graph"
    /\ UNCHANGED <<schema, data0, data, effective, pruned, repruned, errs, matched>>
    /\ UNCHANGED <<mergeVars, formVars, appVars, artifactVars>>

GraphNext == BuildGraph

SpecGraph == GraphInit /\ [][GraphNext]_vars

(* ------------------------------------------------------------------ *)
(* ArtifactsProvider                                                    *)
(* ------------------------------------------------------------------ *)
\* the provider mounted in a browser whose local storage has no tag map
ArtifactsInit ==
    /\ storage = NoItem
    /\ root = initialRoot(NoItem)
    /\ event = [kind |-> "mount"]
    /\ formSchema = NotYet /\ formData = NotYet /\ debouncedData = NotYet
    /\ errors = NoErrors /\ timer = FALSE /\ edits = 0
    /\ PipeIdle
    /\ MergeIdle
    /\ AppIdle
    /\ ErdIdle

\* lines 86-105: updateTag with the tags the updater returns; nothing is
\* set or saved when no artifact has the id
updateTag(artifactId, nextTags) ==
    IF ~MapHas(collectAll(root), artifactId)
    THEN UNCHANGED <<root, storage>>
    ELSE \E copy \in {assignTags(cloneTree(root), artifactId, nextTags)} :
            /\ root' = copy
            /\ storage' = Only({saveTagMap(tagsPersist(nodes, Len(nodes))) :
                                   nodes \in {collectAll(copy)}})

\* the tags of the artifact, [] when there is no such artifact
tagsOf(tree, artifactId) ==
    IF MapHas(collectAll(tree), artifactId)
    THEN TagsOrEmpty(MapGet(collectAll(tree), artifactId))
    ELSE <<>>

\* lines 107-111
addTag ==
    \E artifactId \in ArtifactIds, tag \in TagInputs :
        /\ \E t \in {trim(tag)} :
              IF t = <<>> THEN UNCHANGED <<root, storage>>
              ELSE updateTag(artifactId,
                             Dedupe(Append(tagsOf(root, artifactId), t)))
        /\ event' = [kind |-> "addTag", id |-> artifactId, tag |-> tag]
        /\ UNCHANGED <<formSchema, formData, debouncedData, errors, timer, edits>>
        /\ UNCHANGED <<pipeVars, mergeVars, appVars, erdVars>>

\* lines 113-115
removeTag ==
    \E artifactId \in ArtifactIds, tag \in TagInputs :
        /\ updateTag(artifactId, filterOut(tagsOf(root, artifactId), tag))
        /\ event' = [kind |-> "removeTag", id |-> artifactId, tag |-> tag]
        /\ UNCHANGED <<formSchema, formData, debouncedData, errors, timer, edits>>
        /\ UNCHANGED <<pipeVars, mergeVars, appVars, erdVars>>

\* the page is loaded again: the state of root is initialised from the
\* stored tag map (lines 48-59)
Reload ==
    /\ root' = initialRoot(storage)
    /\ event' = [kind |-> "reload"]
    /\ UNCHANGED storage
    /\ UNCHANGED <<formSchema, formData, debouncedData, errors, timer, edits>>
    /\ UNCHANGED <<pipeVars, mergeVars, appVars, erdVars>>

ArtifactsNext == addTag \/ removeTag \/ Reload

SpecArtifacts == ArtifactsInit /\ [][ArtifactsNext]_vars

(* ------------------------------------------------------------------ *)
(* Properties of the pipeline (SpecPipeline)                            *)
(* ------------------------------------------------------------------ *)
Resolved == pc \in {"resolved", "pruned", "repruned", "validated"}
Pruned == pc \in {"pruned", "repruned"}

\* the names a node lists as required, as a set
RequiredSet(node) == Range(RequiredOrEmpty(node))

VehicleValid ==
    Obj(<< Entry("type", Str("car")),
           Entry("details", Obj(<< Entry("doors", Num(4)),
                                   Entry("fuel", Str("gas")) >>)) >>)
VehicleInvalid ==
    Obj(<< Entry("type", Str("car")),
           Entry("details", Obj(<< Entry("fuel", Str("diesel")) >>)) >>)

\* C3: the Vehicle scenario end to end: validate on the resolved schema gives
\* no error for {type:"car", details:{doors:4, fuel:"gas"}} and exactly a
\* required violation at details.doors and an invalid value at details.fuel
\* for {type:"car", details:{fuel:"diesel"}}.
C3_VehicleEndToEnd ==
    (pc = "validated" /\ schema = VEHICLE_ENUM) =>
        /\ data = VehicleValid => errs = NoErrors
        /\ data = VehicleInvalid =>
               /\ DOMAIN errs = {"details.doors", "details.fuel"}
               /\ errs["details.doors"] = RequiredMessage
               /\ errs["details.fuel"] = InvalidMessage

C3_Witness ==
    /\ pc = "validated"
    /\ schema = VEHICLE_ENUM
    /\ data = VehicleInvalid
    /\ DOMAIN errs = {"details.doors", "details.fuel"}

\* no if, then or else at the node nor at any node visit reaches below it
RECURSIVE NoConditionalLeft(_)
NoConditionalLeft(node) ==
    /\ ~Has(node, "if") /\ ~Has(node, "then") /\ ~Has(node, "else")
    /\ (TypeOf(node) = "object" /\ Has(node, "properties")) =>
           \A i \in 1..Len(node.properties) :
               NoConditionalLeft(node.properties[i].v)
    /\ (TypeOf(node) = "array" /\ Has(node, "items")) =>
           NoConditionalLeft(node.items)

\* C4: the tree resolveEffectiveSchema returns carries no if, then or else
\* at any node the resolver visited.
C4_NoConditionalLeft == Resolved => NoConditionalLeft(effective)

\* the value holds, at every object-typed node of the schema, only keys the
\* node declares in properties
RECURSIVE OnlyDeclaredKeys(_, _)
OnlyDeclaredKeys(node, value) ==
    IF TypeOf(node) = "object"
    THEN isRecord(value) =>
             /\ Range(KeysOf(value.entries)) \subseteq Range(KeysOf(PropsOrEmpty(node)))
             /\ \A i \in 1..Len(PropsOrEmpty(node)) :
                    OnlyDeclaredKeys(node.properties[i].v,
                                     ObjGet(value, node.properties[i].k))
    ELSE IF TypeOf(node) = "array" /\ Has(node, "items")
    THEN isArray(value) =>
             \A i \in 1..Len(value.elems) : OnlyDeclaredKeys(node.items, value.elems[i])
    ELSE TRUE

\* C6: the result of pruneDataAgainstSchema contains, at every object-typed
\* schema node, only keys that the node declares in properties.
C6_OnlyDeclaredKeys == Pruned => OnlyDeclaredKeys(effective, pruned)

\* C7: pruning is idempotent: pruning the pruned data against the same
\* schema gives the pruned data again.
C7_PruneIdempotent == pc = "repruned" => repruned = pruned

C7_Witness ==
    /\ pc = "repruned"
    /\ isRecord(data)
    /\ pruned # data
    /\ \E i \in 1..Len(pruned.entries) : isArray(pruned.entries[i].v)
                                          /\ Len(pruned.entries[i].v.elems) > 1

\* at every object node validate reaches with a mapping as its data, every
\* required name whose value is undefined, "" or null has the required
\* message at its joined path in the error map
RECURSIVE RequiredReported(_, _, _, _)
RequiredReported(node, value, path, errorMap) ==
    IF (IF Has(node, "type") THEN node.type ELSE "object") = "object"
    THEN isRecord(value) =>
             /\ \A i \in 1..Len(RequiredOrEmpty(node)) :
                    ObjGet(value, node.required[i]) \in {Undef, Str(""), Null} =>
                        LET p == joinPath(Append(path, Key(node.required[i])))
                        IN p \in DOMAIN errorMap /\ errorMap[p] = RequiredMessage
             /\ \A i \in 1..Len(PropsOrEmpty(node)) :
                    RequiredReported(node.properties[i].v,
                                     ObjGet(value, node.properties[i].k),
                                     Append(path, Key(node.properties[i].k)),
                                     errorMap)
    ELSE IF node.type = "array" /\ Has(node, "items")
    THEN isArray(value) =>
             \A i \in 1..Len(value.elems) :
                 RequiredReported(node.items, value.elems[i],
                                  Append(path, Idx(i - 1)), errorMap)
    ELSE TRUE

\* C13: for every object node validate reaches with its data, and every
\* name of the node's required list whose data value is undefined, "" or
\* null, the error map validate returns holds "This field is required" at
\* the dot-joined path of the name.
C13_RequiredReported ==
    pc = "validated" => RequiredReported(effective, data, <<>>, errs)

\* at every primitive node with enum that validate reaches, the error map
\* has the invalid-value message at the node's path exactly when the value
\* is defined, is not "" and is no member of enum
RECURSIVE EnumChecked(_, _, _, _)
EnumChecked(node, value, path, errorMap) ==
    IF (IF Has(node, "type") THEN node.type ELSE "object") = "object"
    THEN (Has(node, "properties") /\ isRecord(value)) =>
             \A i \in 1..Len(node.properties) :
                 EnumChecked(node.properties[i].v,
                             ObjGet(value, node.properties[i].k),
                             Append(path, Key(node.properties[i].k)), errorMap)
    ELSE IF node.type = "array" /\ Has(node, "items")
    THEN isArray(value) =>
             \A i \in 1..Len(value.elems) :
                 EnumChecked(node.items, value.elems[i],
                             Append(path, Idx(i - 1)), errorMap)
    ELSE (node.type \in {"string", "number", "integer", "boolean"}
             /\ Has(node, "enum")) =>
             LET p == joinPath(path)
             IN (p \in DOMAIN errorMap /\ errorMap[p] = InvalidMessage)
                    <=> (value # Undef /\ value # Str("")
                            /\ value \notin Range(node.enum))

\* C14: for a primitive schema node that declares enum, validate puts
\* "Invalid value" at the node's path exactly when the data value is defined,
\* is not the empty string and equals no enum member.
C14_EnumChecked ==
    pc = "validated" => EnumChecked(effective, data, <<>>, errs)

\* an enum property holding a value outside its enum is flagged, and one
\* holding the empty string is not
C14_Witness ==
    /\ pc = "validated"
    /\ schema = PlainRoot(EnumNode)
    /\ \/ data = Obj(<< Entry("a", Num(1)) >>) /\ errs = ("a" :> InvalidMessage)
       \/ data = Obj(<< Entry("a", Str("")) >>) /\ errs = NoErrors

\* C15: for a property of type array that its parent lists in required,
\* validate reports the required message at the property's path when the
\* value is the empty array and reports nothing at that path when the array
\* has an element.
C15_RequiredArray ==
    (pc = "validated" /\ isRecord(data)) =>
        \A i \in 1..Len(RequiredOrEmpty(effective)) :
            LET k == effective.required[i]
                v == ObjGet(data, k)
            IN (/\ HasKey(effective.properties, k)
                /\ TypeOf(Lookup(effective.properties, k)) = "array"
                /\ isArray(v)) =>
                   IF Len(v.elems) = 0
                   THEN k \in DOMAIN errs /\ errs[k] = RequiredMessage
                   ELSE k \notin DOMAIN errs

C15_Witness ==
    /\ pc = "validated"
    /\ schema = RequiredRoot(ListNode)
    /\ data = Obj(<< Entry("a", Arr(<<>>)) >>)
    /\ errs = ("a" :> RequiredMessage)

\* the keys of the error map for the paths strictly below a schema node:
\* the declared and the required names of an object node, the elements of
\* an array node, and the paths below those
RECURSIVE KeysBelow(_, _)
KeysBelow(node, path) ==
    IF (IF Has(node, "type") THEN node.type ELSE "object") = "object"
    THEN {joinPath(Append(path, Key(k))) :
              k \in Range(KeysOf(PropsOrEmpty(node))) \cup RequiredSet(node)}
         \cup UNION {KeysBelow(PropsOrEmpty(node)[i].v,
                               Append(path, Key(PropsOrEmpty(node)[i].k))) :
                         i \in 1..Len(PropsOrEmpty(node))}
    ELSE IF node.type = "array" /\ Has(node, "items")
    THEN {joinPath(Append(path, Idx(j))) : j \in 0..MaxIndex}
         \cup UNION {KeysBelow(node.items, Append(path, Idx(j))) : j \in 0..MaxIndex}
    ELSE {}

\* at every object node that validate reaches with a value that is no
\* mapping, the error map has no entry below the node, and at the node's
\* own path at most the required message of its parent
RECURSIVE NonMappingSilent(_, _, _, _)
NonMappingSilent(node, value, path, errorMap) ==
    IF (IF Has(node, "type") THEN node.type ELSE "object") = "object"
    THEN IF isRecord(value)
         THEN \A i \in 1..Len(PropsOrEmpty(node)) :
                  NonMappingSilent(node.properties[i].v,
                                   ObjGet(value, node.properties[i].k),
                                   Append(path, Key(node.properties[i].k)),
                                   errorMap)
         ELSE /\ DOMAIN errorMap \cap KeysBelow(node, path) = {}
              /\ joinPath(path) \in DOMAIN errorMap =>
                     (path # <<>> /\ errorMap[joinPath(path)] = RequiredMessage)
    ELSE IF node.type = "array" /\ Has(node, "items")
    THEN isArray(value) =>
             \A i \in 1..Len(value.elems) :
                 NonMappingSilent(node.items, value.elems[i],
                                  Append(path, Idx(i - 1)), errorMap)
    ELSE TRUE

\* C26: when the data value at an object schema node is no mapping
\* (absent, null, a primitive or an array), validate emits no error at or
\* below the node: neither its required names nor violations of its
\* descendants are reported.
C26_NonMappingSilent ==
    pc = "validated" => NonMappingSilent(effective, data, <<>>, errs)

\* a string under an object node that requires c: nothing is reported
C26_Witness ==
    /\ pc = "validated"
    /\ schema = RequiredRoot(ObjectNode)
    /\ data = Obj(<< Entry("a", Str("u")) >>)
    /\ errs = NoErrors

\* C27: the form pipeline on the playground's Vehicle schema, whose
\* details.fuel is declared in the then branch by oneOf with the consts
\* "gas" and "ev" and without enum: for data with type "car" the effective
\* schema's details.fuel carries enum ["gas", "ev"], and validate reports an
\* invalid value at details.fuel for fuel "diesel".
C27_VehicleFuelEnum ==
    (/\ pc = "validated"
     /\ schema = normalizeSchema(VEHICLE)
     /\ GetOrUndef(data, "type") = Str("car")) =>
        LET fuel == Lookup(Lookup(effective.properties, "details").properties, "fuel")
        IN /\ Has(fuel, "enum") /\ fuel.enum = <<Str("gas"), Str("ev")>>
           /\ GetOrUndef(GetOrUndef(data, "details"), "fuel") = Str("diesel") =>
                  ("details.fuel" \in DOMAIN errs
                       /\ errs["details.fuel"] = InvalidMessage)

\* the value with every array cut down to its first element
RECURSIVE FirstElementsOnly(_)
FirstElementsOnly(value) ==
    IF isArray(value)
    THEN Arr(IF Len(value.elems) > 0
             THEN << FirstElementsOnly(value.elems[1]) >> ELSE <<>>)
    ELSE IF isRecord(value)
    THEN Obj([i \in 1..Len(value.entries) |->
                 [k |-> value.entries[i].k,
                  v |-> FirstElementsOnly(value.entries[i].v)]])
    ELSE value

\* the value with which the conditional node CondNode selects then: a
\* mapping whose c is "u" or undefined
SelectsThen(own) == isRecord(own) /\ ObjGet(own, "c") \in {Str("u"), Undef}

\* the resolved conditional node has the properties of the branch that
\* its own value selects
BranchOfOwnValue(resolved, own) ==
    IF SelectsThen(own)
    THEN KeysOf(resolved.properties) = <<"c", "d">>
    ELSE KeysOf(resolved.properties) = <<"c", "e">>

\* the first element of an array, undefined for anything else
FirstOrUndef(value) ==
    IF isArray(value) /\ Len(value.elems) > 0 THEN value.elems[1] ELSE Undef

\* C16: for an array node with items, resolveEffectiveSchema resolves the
\* items schema against the first element of the data array only: the
\* resolved schema is the one resolved from the data in which every array is
\* cut down to its first element, whatever the later elements contain, and
\* the items take the branch that the first element selects (that undefined
\* selects, when the value is no array or is empty).
C16_ItemsByFirstElement ==
    pc = "resolved" =>
        /\ effective = resolveEffectiveSchema(schema, FirstElementsOnly(data))
        /\ schema = PlainRoot(CondListNode) =>
               BranchOfOwnValue(effective.properties[1].v.items,
                                FirstOrUndef(GetOrUndef(data, "a")))

\* an array of two elements that select different branches of the items
\* schema: the resolved items have the branch of the first (else: e)
C16_Witness ==
    /\ pc = "resolved"
    /\ schema = PlainRoot(CondListNode)
    /\ data = Obj(<< Entry("a", Arr(<< Obj(<< Entry("c", Str("v")) >>),
                                       Obj(<< Entry("c", Str("u")),
                                              Entry("z", Str("s")) >>) >>)) >>)
    /\ KeysOf(effective.properties[1].v.items.properties) = <<"c", "e">>

\* the data with the keys other than a left out
OnlyA(value) ==
    IF isRecord(value) /\ HasKey(value.entries, "a")
    THEN Obj(<< Entry("a", ObjGet(value, "a")) >>)
    ELSE Obj(<<>>)

\* C17: a nested property that has if and a then or else selects its branch
\* by its own data value (undefined when the parent data is missing or is
\* no mapping), at the first and at the second level of nesting, and the
\* resolved property does not change when only data outside its value does.
C17_NestedMatchOnOwnValue ==
    pc = "resolved" =>
        /\ schema = PlainRoot(CondNode) =>
               BranchOfOwnValue(effective.properties[1].v, GetOrUndef(data, "a"))
        /\ schema = PlainRoot(DeepCondNode) =>
               BranchOfOwnValue(effective.properties[1].v.properties[1].v,
                                GetOrUndef(GetOrUndef(data, "a"), "c"))
        /\ ~Has(schema, "if") =>
               effective = resolveEffectiveSchema(schema, OnlyA(data))

\* the parent value would select then (it has no c), the own value selects
\* else, and the root holds other keys
C17_Witness ==
    /\ pc = "resolved"
    /\ schema = PlainRoot(DeepCondNode)
    /\ data = Obj(<< Entry("a", Obj(<< Entry("c", Obj(<< Entry("c", Str("v")),
                                                        Entry("d", Str("x")) >>)) >>)),
                     Entry("z", Str("s")) >>)
    /\ KeysOf(effective.properties[1].v.properties[1].v.properties) = <<"c", "e">>

\* the data with which the root condition of BranchRoot and of
\* NestedBranchRoot selects then: a mapping whose a is "u" or undefined
RootSelectsThen(value) == isRecord(value) /\ ObjGet(value, "a") \in {Str("u"), Undef}

\* C18: when the then branch of the root wins and is merged, the conditionals
\* inside its payload are resolved in the same call: the one on a property
\* the branch contributes, the one on the items of an array property it
\* contributes, and the one on the branch node itself (whose own then
\* requires b when z is given, and whose own else declares e otherwise).
C18_BranchPayloadResolved ==
    (pc = "resolved" /\ RootSelectsThen(data)) =>
        /\ schema = BranchRoot(CondNode) =>
               BranchOfOwnValue(Lookup(effective.properties, "b"),
                                GetOrUndef(data, "b"))
        /\ schema = BranchRoot(CondListNode) =>
               BranchOfOwnValue(Lookup(effective.properties, "b").items,
                                FirstOrUndef(GetOrUndef(data, "b")))
        /\ schema = NestedBranchRoot =>
               IF ObjGet(data, "z") = Str("s")
               THEN "b" \in RequiredSet(effective)
               ELSE HasKey(effective.properties, "e")

\* C19: a nested node that omits type is treated as an object by every core
\* function: the matcher applies its object checks to an if without type,
\* the resolver recurses into the properties of a node without type, the
\* pruner keeps only the declared keys under it, and the validator checks
\* its required list.
C19_UntypedNodeIsObject ==
    /\ (pc = "resolved" /\ schema = UntypedIfRoot) =>
           (HasKey(effective.properties, "b") <=> RootSelectsThen(data))
    /\ (pc = "resolved" /\ schema = PlainRoot(UntypedParentNode)) =>
           BranchOfOwnValue(effective.properties[1].v.properties[1].v,
                            GetOrUndef(GetOrUndef(data, "a"), "c"))
    /\ (pc = "pruned" /\ schema \in {PlainRoot(UntypedNode),
                                     PlainRoot(UntypedParentNode)}) =>
           /\ isRecord(GetOrUndef(pruned, "a"))
           /\ KeysOf(GetOrUndef(pruned, "a").entries) = <<"c">>
    /\ (pc = "validated" /\ schema = PlainRoot(UntypedParentNode)
           /\ isRecord(GetOrUndef(data, "a"))
           /\ ObjGet(ObjGet(data, "a"), "c") \in {Undef, Null, Str("")}) =>
           ("a.c" \in DOMAIN errs /\ errs["a.c"] = RequiredMessage)

\* C20: for a root of type object without a properties field,
\* resolveEffectiveSchema still evaluates the root if/then/else and returns
\* the properties and required of the winning branch: b declared and
\* required when then wins, a required when else wins.
C20_RootWithoutProperties ==
    (pc = "resolved" /\ schema = NoPropertiesRoot) =>
        IF RootSelectsThen(data)
        THEN /\ Has(effective, "properties")
             /\ KeysOf(effective.properties) = <<"b">>
             /\ RequiredSet(effective) = {"b"}
        ELSE /\ PropsOrEmpty(effective) = <<>>
             /\ RequiredSet(effective) = {"a"}

(* ------------------------------------------------------------------ *)
(* Properties of isValidAgainst (SpecMatch)                             *)
(* ------------------------------------------------------------------ *)
\* the conditions under which an object schema accepts a value: the value
\* is a mapping, every required name is a key of it with a value other than
\* undefined, null and "", and every property that is present in it has a
\* value among the child's enum, equal to the child's const, and, for a
\* child of type object and a value that is an object, accepted by the
\* child.  A key that holds undefined counts as present unless
\* undefinedIsAbsent.
RECURSIVE ObjectMatch(_, _, _)
ObjectMatch(node, value, undefinedIsAbsent) ==
    /\ isRecord(value)
    /\ \A i \in 1..Len(RequiredOrEmpty(node)) :
           /\ HasKey(value.entries, node.required[i])
           /\ ObjGet(value, node.required[i]) \notin {Undef, Null, Str("")}
    /\ \A i \in 1..Len(PropsOrEmpty(node)) :
           LET child == node.properties[i].v
               v == ObjGet(value, node.properties[i].k)
               present == /\ HasKey(value.entries, node.properties[i].k)
                          /\ undefinedIsAbsent => v # Undef
           IN present =>
                  /\ Has(child, "enum") => v \in Range(child.enum)
                  /\ Has(child, "const") => v = child.const
                  /\ (TypeOf(child) = "object" /\ v.t \in {"object", "array"}) =>
                         ObjectMatch(child, v, undefinedIsAbsent)

\* C12 as the specification states it: for a schema of type object,
\* isValidAgainst returns true exactly when the data is a mapping, every
\* required key exists with a value other than undefined, null and "", and
\* every key present in both properties and data passes the child's enum,
\* const and nested object checks.
C12_ObjectMatchExactly ==
    (pc = "matched" /\ TypeOf(schema) = "object") =>
        matched = ObjectMatch(schema, data, FALSE)

\* C12, amended: the same, where a key of properties is checked only when
\* its value in the data is not undefined: a key that the data holds with
\* the value undefined is skipped like a key the data does not hold.
C12_ObjectMatchSkippingUndefined ==
    (pc = "matched" /\ TypeOf(schema) = "object") =>
        matched = ObjectMatch(schema, data, TRUE)

\* the data holds a property that declares enum or const with the value
\* undefined, and the matcher accepts it
C12_Witness ==
    /\ pc = "matched"
    /\ isRecord(data)
    /\ matched = TRUE
    /\ \E i \in 1..Len(PropsOrEmpty(schema)) :
           /\ Has(schema.properties[i].v, "enum") \/ Has(schema.properties[i].v, "const")
           /\ HasKey(data.entries, schema.properties[i].k)
           /\ ObjGet(data, schema.properties[i].k) = Undef

(* ------------------------------------------------------------------ *)
(* Properties of the form (Spec)                                        *)
(* ------------------------------------------------------------------ *)
\* the form has settled: the debounce has elapsed and the effects have run
Settled == ~timer

\* validate on the schema resolved from the current data, with that data
ErrorsOfCurrentData ==
    validate(effectiveSchemaFor(formData), formData, <<>>, NoErrors)

PrunedOfCurrentData ==
    Only({pruneDataAgainstSchema(eff, formData) :
             eff \in {effectiveSchemaFor(formData)}})

\* C21: whenever the form has settled (no timer pending, the effects
\* run), the form data equals its own pruning against the effective schema
\* resolved from it, and holds no key outside the properties of that
\* schema.
C21_SettledDataIsPruned ==
    (Settled /\ formSchema # NotYet) =>
        /\ debouncedData = formData
        /\ PrunedOfCurrentData = formData
        /\ OnlyDeclaredKeys(effectiveSchemaFor(formData), formData)

\* C22: an edit of the field at a path (select change, checkbox change,
\* text commit, or adding an item to the array at the path) removes exactly
\* the entry of the error map keyed by the joined path: every other entry
\* keeps its key and message, none is added, and onErrorsChange is called
\* only when an entry was removed.
C22_EditClearsOwnError ==
    [][event'.kind = "edit" =>
          LET p == joinPath(event'.path)
          IN /\ DOMAIN errors' = DOMAIN errors \ {p}
             /\ \A q \in DOMAIN errors' : errors'[q] = errors[q]
             /\ event'.onErrorsChange <=> p \in DOMAIN errors]_vars

\* the name of the first project was committed while both names were
\* flagged: the entry of the second is left
C22_Witness ==
    /\ formSchema = PROJECTS
    /\ event.kind = "edit"
    /\ event.path = <<Key("projects"), Idx(0), Key("name")>>
    /\ event.onErrorsChange
    /\ errors = ("projects.1.name" :> RequiredMessage)

\* the key of the error map for the element j of the array at arrayPath,
\* or for a path below the element
ElementKey(arrayPath, j, suffix) == joinPath(arrayPath \o <<Idx(j)>> \o suffix)

\* the keys of the error map that name an element of the array or a path
\* below one
ElementKeys(arrayPath) ==
    {ElementKey(arrayPath, j, suffix) : j \in 0..MaxIndex, suffix \in ElementSuffixes}

\* C23: the removal of element idx of the array at a path reindexes the
\* error map in step with the data: the entries of element idx are dropped,
\* the entries of an element j > idx are re-keyed to j - 1 with the same
\* suffix and message, every other entry (that of the array itself, those
\* of the elements j < idx) is unchanged, and the element an entry names
\* after the removal is the element it named before.
C23_RemovalReindexesErrors ==
    [][event'.kind = "remove" =>
          LET A == event'.path
              idx == event'.idx
              before == getValueAtPath(formData, A)
              after == getValueAtPath(formData', A)
          IN /\ \A k \in DOMAIN errors \ ElementKeys(A) :
                    k \in DOMAIN errors' /\ errors'[k] = errors[k]
             /\ DOMAIN errors' \ ElementKeys(A) \subseteq DOMAIN errors
             /\ \A j \in 0..MaxIndex, suffix \in ElementSuffixes :
                    LET new == ElementKey(A, j, suffix)
                        old == ElementKey(A, IF j < idx THEN j ELSE j + 1, suffix)
                    IN /\ new \in DOMAIN errors' <=> old \in DOMAIN errors
                       /\ new \in DOMAIN errors' => errors'[new] = errors[old]
             /\ Len(after.elems) = Len(before.elems) - 1
             /\ \A j \in 0..(Len(after.elems) - 1) :
                    after.elems[j + 1]
                        = before.elems[(IF j < idx THEN j ELSE j + 1) + 1]]_vars

\* the first of two projects was removed while the name of the second was
\* flagged: the entry now names the element at index 0, the same element
C23_Witness ==
    /\ formSchema = PROJECTS
    /\ event.kind = "remove"
    /\ event.idx = 0
    /\ errors = ("projects.0.name" :> RequiredMessage)
    /\ ObjGet(formData, "projects") = Arr(<< Obj(<<>>) >>)

\* C24: onSubmit is called only with data that is valid under the effective
\* schema resolved from that data itself, also when the submit falls into
\* the debounce window of an edit; a failed submit does not call onSubmit
\* and sets the error map to the result of the validator.
C24_SubmittedDataIsValid ==
    (formSchema # NotYet /\ event.kind = "submit") =>
        /\ event.onSubmit => ErrorsOfCurrentData = NoErrors
        /\ ~event.onSubmit => errors # NoErrors

\* C25: with no further user input the cycle of debounce, resolution,
\* pruning and replacement of the data ends: from every schema and every
\* starting data the form reaches a state in which no timer is pending, and
\* stays there.
C25_PruneCycleTerminates == <>[]Settled

\* the data a view shows: the form shows the state of DynamicForm, the JSON
\* editor and the ERD show the formData of App
ShownData == IF view = "form" THEN formData ELSE appFormData

\* C28: the form view, the JSON editor view and the ERD view show one
\* document: the data the form shows on a return to the form view is the
\* document that was last produced in any view.
C28_ViewsShareDocument ==
    [][(event'.kind = "view" /\ view' = "form") => formData' = ShownData]_vars

(* ------------------------------------------------------------------ *)
(* Properties of buildGraph (SpecGraph)                                 *)
(* ------------------------------------------------------------------ *)
\* the elements of the values that are arrays
ElementsOf(values) ==
    UNION {Range(v.elems) : v \in {w \in values : isArray(w)}}

\* the values under a key of the values that are objects
ValuesUnder(values, key) ==
    {ObjGet(v, key) : v \in {w \in values : isRecord(w)}}

\* The entities of a schema node with the exists each should carry: the
\* node is located at `path`, and `values` are the data located there (the
\* elements of the array, for the items of an array of objects).
RECURSIVE ExpectedEntities(_, _, _)
ExpectedEntities(schemaNode, path, values) ==
    { [id |-> joinPath(path),
       exists |-> \E v \in values : hasAnyValue(schemaNode, v)] }
    \cup UNION {
        LET key == schemaNode.properties[i].k
            child == schemaNode.properties[i].v
        IN IF TypeOf(child) = "object"
           THEN ExpectedEntities(child, Append(path, Key(key)),
                                 ValuesUnder(values, key))
           ELSE IF isArrayOfObjects(child)
           THEN ExpectedEntities(child.items,
                                 path \o <<Key(key), Key(itemPathToken)>>,
                                 ElementsOf(ValuesUnder(values, key)))
           ELSE {} : i \in 1..Len(PropsOrEmpty(schemaNode)) }

\* C29: every entity of the graph carries exists = TRUE exactly when the
\* data at its path holds a non-empty value for a declared property; the
\* entity of the items of an array of objects exactly when an element of
\* the array holds one.
C29_ExistsReflectsData ==
    graph # NotYet =>
        \A i \in 1..Len(graph.nodes) :
            [id |-> graph.nodes[i].data.id,
             exists |-> graph.nodes[i].data.exists]
                \in ExpectedEntities(schema, <<>>, {data})

(* ------------------------------------------------------------------ *)
(* Properties of ArtifactsProvider (SpecArtifacts)                      *)
(* ------------------------------------------------------------------ *)
\* the ids of the artifacts of a tree
IdsOf(tree) == {n.id : n \in Range(collectAll(tree))}

\* a list without a repeated element
NoDuplicates(list) == \A i, j \in 1..Len(list) : list[i] = list[j] => i = j

\* C30: a reload gives every artifact the tag set it had before; addTag
\* leaves no tag twice on an artifact and does nothing for a tag that is
\* empty after trimming.
C30_TagsRoundTrip ==
    [][/\ event'.kind = "reload" =>
            \A id \in IdsOf(root) :
                Range(tagsOf(root', id)) = Range(tagsOf(root, id))
       /\ event'.kind = "addTag" =>
            /\ \A id \in IdsOf(root') : NoDuplicates(tagsOf(root', id))
            /\ trim(event'.tag) = <<>> => root' = root /\ storage' = storage
      ]_vars

(* ------------------------------------------------------------------ *)
(* Properties of mergeSchemas (SpecMerge)                               *)
(* ------------------------------------------------------------------ *)
\* C9: the required list of mergeSchemas(base, overlay) is, as a set, the
\* union of base.required and overlay.required, and has no duplicate entry.
C9_RequiredUnion ==
    mpc = "merged" =>
        /\ RequiredSet(merged) = RequiredSet(base) \cup RequiredSet(overlay)
        /\ Cardinality(RequiredSet(merged)) = Len(RequiredOrEmpty(merged))

C9_Witness ==
    /\ mpc = "merged"
    /\ RequiredSet(base) \ RequiredSet(overlay) # {}
    /\ RequiredSet(overlay) \ RequiredSet(base) # {}
    /\ RequiredSet(base) \cap RequiredSet(overlay) # {}

\* the scalar fields of a schema node
ScalarFields == {"title", "description", "type", "enum", "order"}

ForcedType ==
    IF /\ (TypeOf(base) = "array" \/ TypeOf(overlay) = "array")
       /\ (Has(base, "items") \/ Has(overlay, "items"))
    THEN "array"
    ELSE IF TypeOf(base) = "object" \/ TypeOf(overlay) = "object"
    THEN "object"
    ELSE "none"

PropKeys(node) == Range(KeysOf(PropsOrEmpty(node)))

\* C10: whenever either side of mergeSchemas(base, overlay) has type object
\* or declares properties, the result has type object and its properties key
\* set is the union of the two sides' keys; a key on both sides maps to the
\* merge of the two children, a key on one side to that side's child.
C10_PropertiesUnion ==
    (/\ mpc = "merged"
     /\ \/ TypeOf(base) = "object" \/ TypeOf(overlay) = "object"
        \/ Has(base, "properties") \/ Has(overlay, "properties")) =>
        /\ TypeOf(merged) = "object"
        /\ Has(merged, "properties")
        /\ PropKeys(merged) = PropKeys(base) \cup PropKeys(overlay)
        /\ \A k \in PropKeys(merged) :
              Lookup(merged.properties, k) =
                  IF k \in PropKeys(base) /\ k \in PropKeys(overlay)
                  THEN mergeSchemas(Lookup(base.properties, k),
                                    Lookup(overlay.properties, k))
                  ELSE IF k \in PropKeys(overlay)
                  THEN Lookup(overlay.properties, k)
                  ELSE Lookup(base.properties, k)
====
